---------------------------- MODULE Spec2Model ----------------------------
(***************************************************************************)
(* A model of the pre-mayhem bot: the execution engine                     *)
(* (executeWithLockAndTimeout), the durable store it works on (execution   *)
(* locks, bot_state, rounds), the scheduler's buy and reward triggers, the *)
(* one-shot command line modes, and the buy and reward job bodies.         *)
(*                                                                         *)
(* Time is the wall clock in whole seconds (Math.floor(Date.now()/1000));  *)
(* it advances in steps of TickSeconds, the resolution of node-cron's      *)
(* five-field expressions.                                                 *)
(***************************************************************************)
EXTENDS Integers, FiniteSets, Sequences, TLC

VARIABLES
    now,        \* Math.floor(Date.now() / 1000)
    alive,      \* which processes are running
    run,        \* the engine runs (async invocations) of each process
    locks,      \* table execution_locks
    botState,   \* table bot_state
    rounds,     \* table rounds
    orphaned,   \* history: lock types whose row was left by a stopped process
    cleanedLive,\* history: lock types whose row stale cleanup deleted under a live run
    buy503,     \* history: consecutive buy executions with a failing "503" call
    calc,       \* the amounts of one buy round (steps 1-5 of executeBuyRound)
    lastResult, \* history: the result the latest job body returned
    reward,     \* the amounts of one reward round (steps 3-10 of executeRewardRound)
    lottery,    \* one lottery: its context, the eligible list, the winners drawn
    holders,    \* the holders table
    tasks,      \* scans, age computations and the balance refresh in flight
    scan,       \* the ledger, scan_state and the scans in flight
    limiter,    \* the status server: rateLimitMap and the requests it answered
    net,        \* the transactions the job bodies submit, and txs_json of the rounds
    shutdown    \* the scheduler process: its flags, its callbacks and its shutdown

vars == <<now, alive, run, locks, botState, rounds, orphaned, cleanedLive, buy503, calc,
          lastResult, reward, lottery, holders, tasks, scan, limiter,
          net, shutdown>>

\* The scans, the status server and the network, which the jobs of the
\* scheduler's model leave alone.
ioVars == <<scan, limiter, net, shutdown>>

\* The scheduler's and the store's variables, which the computations of
\* amounts leave alone.
jobVars == <<alive, run, locks, botState, rounds, orphaned, cleanedLive, buy503, lastResult>>

storeVars == <<now, jobVars, holders, tasks, ioVars>>

-----------------------------------------------------------------------------
(* Bounds of the model *)

MaxTicks == 5          \* the clock runs from 0 to MaxTicks * TickSeconds
MaxRounds == 3         \* job invocations admitted (each may insert one round)
MaxSchedRuns == 2      \* callbacks the scheduler process has in flight at once

(* Program constants and configuration (values set through the environment: *)
(* the intervals are shorter than the defaults, so that the stale-lock      *)
(* cutoff, 2 * max(interval), falls inside a behaviour, and the reward      *)
(* timeout is longer than that cutoff)                                      *)

TickSeconds == 60                  \* node-cron fires on minute boundaries
BuyIntervalSeconds == 90           \* BUY_INTERVAL_SECONDS
RewardIntervalSeconds == 60        \* REWARD_INTERVAL_SECONDS
BuyJobTimeoutMs == 120000          \* BUY_JOB_TIMEOUT_MS (the default)
RewardJobTimeoutMs == 300000       \* REWARD_JOB_TIMEOUT_MS
MaxRpcErrorsBeforePause == 3       \* MAX_RPC_ERRORS_BEFORE_PAUSE

Procs == {"sched", "cli"}
Runs == 1 .. (MaxSchedRuns + 1)
CliRun == MaxSchedRuns + 1
ProcOf(r) == IF r = CliRun THEN "cli" ELSE "sched"

Jobs == {"buy", "reward"}
LockTypes == {"buy_job", "reward_job"}
LockTypeOf(job) == IF job = "buy" THEN "buy_job" ELSE "reward_job"
IntervalOf(job) == IF job = "buy" THEN BuyIntervalSeconds ELSE RewardIntervalSeconds
TimeoutMsOf(job) == IF job = "buy" THEN BuyJobTimeoutMs ELSE RewardJobTimeoutMs

Max(a, b) == IF a >= b THEN a ELSE b
\* Variant: a minimum that keeps its first argument.
Min_m(a, b) == a

Min(a, b) == IF a <= b THEN a ELSE b

-----------------------------------------------------------------------------
(* The store: execution locks *)

NoLock == [held |-> FALSE, acquired_ts |-> 0, pid |-> "none"]

isLockHeld(L, lockType) == L[lockType].held

\* Variant: an INSERT that never fails on the primary key.
canAcquireLock_m(L, lockType) == TRUE

\* INSERT INTO execution_locks: fails on the primary key when a row exists.
canAcquireLock(L, lockType) == ~L[lockType].held

\* Variant: an acquisition that reports success and writes no row.
acquireLock_m(L, lockType, t, pid) == L

acquireLock(L, lockType, t, pid) ==
    IF canAcquireLock(L, lockType)
    THEN [L EXCEPT ![lockType] = [held |-> TRUE, acquired_ts |-> t, pid |-> pid]]
    ELSE L

\* Variant: a release that deletes nothing.
releaseLock_m(L, lockType) == L

\* DELETE FROM execution_locks WHERE lock_type = ?
releaseLock(L, lockType) == [L EXCEPT ![lockType] = NoLock]

\* DELETE FROM execution_locks WHERE acquired_ts < now - maxAgeSeconds
clearStaleLocks(L, maxAgeSeconds, t) ==
    [lt \in LockTypes |->
        IF L[lt].held /\ L[lt].acquired_ts < t - maxAgeSeconds THEN NoLock ELSE L[lt]]

getLockStatus(L) ==
    [buyInProgress |-> isLockHeld(L, "buy_job"),
     rewardInProgress |-> isLockHeld(L, "reward_job")]

maxLockAge == Max(BuyIntervalSeconds, RewardIntervalSeconds) * 2

-----------------------------------------------------------------------------
(* The store: bot_state.  A key that is absent reads as false / 0 / -1. *)

NoBotState == [safe_mode |-> FALSE, safe_mode_reason |-> 0,
               consecutive_rpc_errors |-> 0, heartbeat_ts |-> -1]

isSafeMode(B) == B.safe_mode

getRpcErrorCount(B) == B.consecutive_rpc_errors

incrementRpcErrors(B) ==
    [B EXCEPT !.consecutive_rpc_errors = getRpcErrorCount(B) + 1]

\* Variant: a counter reset that also clears the safe-mode flag.
resetRpcErrors_m(B) == [B EXCEPT !.consecutive_rpc_errors = 0, !.safe_mode = FALSE]

resetRpcErrors(B) == [B EXCEPT !.consecutive_rpc_errors = 0]

\* The reason is "Consecutive RPC errors: <count>"; the model keeps the count.
enterSafeMode(B, count) == [B EXCEPT !.safe_mode = TRUE, !.safe_mode_reason = count]

exitSafeMode(B) ==
    [B EXCEPT !.safe_mode = FALSE, !.safe_mode_reason = 0, !.consecutive_rpc_errors = 0]

updateHeartbeat(B, t) == [B EXCEPT !.heartbeat_ts = t]

-----------------------------------------------------------------------------
(* The store: rounds *)

insertRound(R, round) == R \cup {round}

RoundsOf(R, type) == {x \in R : x.type = type}

hasRound(R, type) == RoundsOf(R, type) # {}

\* SELECT * FROM rounds WHERE type = ? ORDER BY ts DESC LIMIT 1 (its ts)
getLastRoundTs(R, type) ==
    CHOOSE t \in {x.ts : x \in RoundsOf(R, type)} :
        \A x \in RoundsOf(R, type) : x.ts <= t

\* uuidv4(): a round id no row has yet
newRoundId(R) == Cardinality(R) + 1

-----------------------------------------------------------------------------
(* The scheduler: cron expressions and timing guards *)

\* secondsToCron and node-cron's matching of the expression it returns:
\* "* * * * *", "*/m * * * *", "0 */h * * *" or "0 0 * * *".
secondsToCron(seconds, t) ==
    LET minuteOfHour == (t \div 60) % 60
        hourOfDay == (t \div 3600) % 24
        minutes == seconds \div 60
        hours == minutes \div 60
    IN  /\ t % 60 = 0
        /\ IF seconds < 60 THEN TRUE
           ELSE IF minutes < 60 THEN minuteOfHour % minutes = 0
           ELSE IF hours < 24 THEN minuteOfHour = 0 /\ hourOfDay % hours = 0
           ELSE minuteOfHour = 0 /\ hourOfDay = 0

\* Variant: a guard that waits for more than the interval.
shouldRunJob_m(R, job, t) ==
    IF ~hasRound(R, job) THEN TRUE
    ELSE t - getLastRoundTs(R, job) > IntervalOf(job)

\* shouldRunBuyJob / shouldRunRewardJob
shouldRunJob(R, job, t) ==
    IF ~hasRound(R, job) THEN TRUE
    ELSE t - getLastRoundTs(R, job) >= IntervalOf(job)

-----------------------------------------------------------------------------
(* Engine runs *)

IdleRun == [pc |-> "idle", job |-> "none", start |-> 0]

BodyPcs == {"balance", "swap", "confirm", "prepare", "transfer", "fn"}

InBody(r) == run[r].pc \in BodyPcs

Active(r) == run[r].pc # "idle"

BodiesOf(lockType) == {r \in Runs : InBody(r) /\ LockTypeOf(run[r].job) = lockType}

\* The bound on the job invocations of one behaviour.
Admit == Cardinality(rounds) + Cardinality({r \in Runs : Active(r)}) < MaxRounds

\* A new callback of the scheduler process takes its lowest free run.
FreeRun(r) ==
    /\ ProcOf(r) = "sched"
    /\ ~Active(r)
    /\ \A q \in Runs : (ProcOf(q) = "sched" /\ q < r) => Active(q)

\* The run is over; a one-shot command line process exits with its run.
Finish(r) ==
    /\ run' = [run EXCEPT ![r] = IdleRun]
    /\ alive' = IF ProcOf(r) = "cli" THEN [alive EXCEPT !["cli"] = FALSE] ELSE alive

\* History: what is left of the orphaned and the cleaned-under-a-live-run marks.
OrphanedIn(L) == {lt \in orphaned : L[lt].held}

TaintedIn(T, rn) ==
    {lt \in T : \E r \in Runs : rn[r].pc \in BodyPcs /\ LockTypeOf(rn[r].job) = lt}

-----------------------------------------------------------------------------
(* executeWithLockAndTimeout *)

Errors == {"AbortError", "aborted", "503", "429", "timeout", "ECONNREFUSED",
           "fetch failed", "other"}

isTimeoutOrAbort(err) == err \in {"AbortError", "aborted"}

\* Variant: only the HTTP status codes count as RPC errors.
isRpcError_m(err) == err \in {"503", "429"}

isRpcError(err) == err \in {"503", "429", "timeout", "ECONNREFUSED", "fetch failed"}

\* Variant: an engine without the safe-mode gate.
engineGate_m(B, L, lockType) ==
    IF ~canAcquireLock(L, lockType) THEN "SkippedLocked" ELSE "Run"

\* What an invocation does before the body: the safe-mode gate, then the lock.
engineGate(B, L, lockType) ==
    IF isSafeMode(B) THEN "SkippedSafeMode"
    ELSE IF ~canAcquireLock(L, lockType) THEN "SkippedLocked"
    ELSE "Run"

\* The result of an invocation whose body settled with out: "return" or the
\* error it threw.
engineResult(out) ==
    IF out = "return" THEN "Success"
    ELSE IF isTimeoutOrAbort(out) THEN "TimedOut"
    ELSE "Failed"

\* bot_state after the body settled.
trackOutcome(B, out) ==
    IF out = "return" THEN resetRpcErrors(B)
    ELSE IF isTimeoutOrAbort(out) THEN B
    ELSE IF isRpcError(out)
         THEN LET B1 == incrementRpcErrors(B)
                  errorCount == getRpcErrorCount(B1)
              IN  IF errorCount >= MaxRpcErrorsBeforePause
                  THEN enterSafeMode(B1, errorCount)
                  ELSE B1
    ELSE B

\* The call of the engine by run r: skipped, or the lock is taken and the
\* body starts (it runs up to its first await in the same instant).
EngineEnter(r, job, firstPc) ==
    IF engineGate(botState, locks, LockTypeOf(job)) = "Run"
    THEN /\ locks' = acquireLock(locks, LockTypeOf(job), now, ProcOf(r))
         /\ run' = [run EXCEPT ![r] = [pc |-> firstPc, job |-> job, start |-> now]]
    ELSE /\ locks' = locks
         /\ run' = [run EXCEPT ![r] = IdleRun]

\* try { ... } catch { ... } finally { releaseLock(lockType) }
Settle(r, out) ==
    /\ botState' = trackOutcome(botState, out)
    /\ locks' = releaseLock(locks, LockTypeOf(run[r].job))
    /\ Finish(r)
    /\ orphaned' = OrphanedIn(locks')
    /\ cleanedLive' = TaintedIn(cleanedLive, run')

\* executeWithTimeout: setTimeout(() => controller.abort(), timeoutMs) has
\* fired; clearTimeout in the finally block stops it once the body settled.
signalAborted(r) ==
    /\ InBody(r)
    /\ now * 1000 >= run[r].start * 1000 + TimeoutMsOf(run[r].job)

-----------------------------------------------------------------------------
(* Processes *)

\* main() up to clearStaleLocks(maxLockAge)
Start(p) ==
    /\ ~alive[p]
    /\ alive' = [alive EXCEPT ![p] = TRUE]
    /\ locks' = clearStaleLocks(locks, maxLockAge, now)
    /\ orphaned' = OrphanedIn(locks')
    /\ cleanedLive' = cleanedLive \cup
          {lt \in LockTypes : locks[lt].held /\ ~locks'[lt].held /\ BodiesOf(lt) # {}}

SchedStart ==
    /\ Start("sched")
    /\ UNCHANGED <<now, run, botState, rounds>>

\* The process stops (crash, kill, or process.exit in gracefulShutdown): its
\* runs end where they are and their lock rows stay.
Crash(p) ==
    /\ alive[p]
    /\ alive' = [alive EXCEPT ![p] = FALSE]
    /\ run' = [r \in Runs |-> IF ProcOf(r) = p THEN IdleRun ELSE run[r]]
    /\ orphaned' = orphaned \cup {lt \in LockTypes : locks[lt].held /\ locks[lt].pid = p}
    /\ cleanedLive' = TaintedIn(cleanedLive, run')
    /\ UNCHANGED <<now, locks, botState, rounds>>

-----------------------------------------------------------------------------
(* Triggers *)

\* cron.schedule(buyCron / rewardCron, ...) at time t: the timing guard,
\* then the treasury balance check is awaited.  The callback takes the
\* scheduler's lowest free run.
cronCallback(rn, job, t) ==
    LET free == {r \in Runs : ProcOf(r) = "sched" /\ rn[r].pc = "idle"}
        busy == Cardinality({r \in Runs : rn[r].pc # "idle"})
        r == CHOOSE x \in free : \A y \in free : x <= y
    IN  IF /\ secondsToCron(IntervalOf(job), t)
           /\ shouldRunJob(rounds, job, t)
           /\ free # {}
           /\ Cardinality(rounds) + busy < MaxRounds
        THEN [rn EXCEPT ![r] = [IdleRun EXCEPT !.pc = "precheck", !.job = job]]
        ELSE rn

\* The clock reaches the next minute; the scheduler's cron triggers that
\* match it fire, the buy trigger (registered first) before the reward one.
Tick ==
    /\ now + TickSeconds <= MaxTicks * TickSeconds
    /\ now' = now + TickSeconds
    /\ run' = IF alive["sched"]
              THEN cronCallback(cronCallback(run, "buy", now'), "reward", now')
              ELSE run
    /\ UNCHANGED <<alive, locks, botState, rounds, orphaned, cleanedLive>>

\* The clock in seconds around the minute boundaries.  One second passes
\* after a boundary: Math.floor(Date.now() / 1000) has moved on, and no cron
\* expression matches (node-cron matches second 0 only).
SecondPasses ==
    /\ now % TickSeconds = 0
    /\ now + 1 < MaxTicks * TickSeconds
    /\ now' = now + 1
    /\ UNCHANGED <<alive, run, locks, botState, rounds, orphaned, cleanedLive>>

\* The clock reaches the next minute boundary, and the triggers fire as in
\* Tick.
MinuteBoundary ==
    /\ now' = (now \div TickSeconds + 1) * TickSeconds
    /\ now' <= MaxTicks * TickSeconds
    /\ run' = IF alive["sched"]
              THEN cronCallback(cronCallback(run, "buy", now'), "reward", now')
              ELSE run
    /\ UNCHANGED <<alive, locks, botState, rounds, orphaned, cleanedLive>>

\* The clock alone, for the engine on its own.
ClockTick ==
    /\ now + TickSeconds <= MaxTicks * TickSeconds
    /\ now' = now + TickSeconds
    /\ UNCHANGED <<alive, run, locks, botState, rounds, orphaned, cleanedLive>>

\* main() with --once-buy / --once-reward: no timing guard.
CliStart(job) ==
    /\ Admit
    /\ Start("cli")
    /\ run' = [run EXCEPT ![CliRun] = [IdleRun EXCEPT !.pc = "precheck", !.job = job]]
    /\ UNCHANGED <<now, botState, rounds>>

FirstPc(job) == IF job = "buy" THEN "balance" ELSE "prepare"

\* The balance check before the engine: "ok", "low" (below the reserve or the
\* minimum) or "error" (the lookup failed); only "ok" calls the engine, and a
\* skipped call ends the run.
PrecheckDone(r, res) ==
    /\ run[r].pc = "precheck"
    /\ IF res = "ok"
       THEN /\ EngineEnter(r, run[r].job, FirstPc(run[r].job))
            /\ alive' = IF ProcOf(r) = "cli" /\ run'[r].pc = "idle"
                        THEN [alive EXCEPT !["cli"] = FALSE] ELSE alive
       ELSE Finish(r) /\ locks' = locks
    /\ UNCHANGED <<now, botState, rounds, orphaned, cleanedLive>>

\* A job body fn(signal) that is not one of the bot's own: it returns, or it
\* throws an error; it throws the abort error only once the signal fired.
FnFinish(r, out) ==
    /\ run[r].pc = "fn"
    /\ isTimeoutOrAbort(out) => signalAborted(r)
    /\ Settle(r, out)
    /\ UNCHANGED <<now, rounds>>

\* A direct call of the engine from the running scheduler process.
Invoke(r, job) ==
    /\ alive["sched"]
    /\ FreeRun(r)
    /\ Admit
    /\ EngineEnter(r, job, "fn")
    /\ UNCHANGED <<now, alive, botState, rounds, orphaned, cleanedLive>>

\* main() with --exit-safe-mode
CliExitSafeMode ==
    /\ botState' = IF isSafeMode(botState) THEN exitSafeMode(botState) ELSE botState
    /\ UNCHANGED <<now, alive, run, locks, rounds, orphaned, cleanedLive>>

\* updateHeartbeat() at startup and every 30 s
Heartbeat ==
    /\ alive["sched"]
    /\ botState' = updateHeartbeat(botState, now)
    /\ UNCHANGED <<now, alive, run, locks, rounds, orphaned, cleanedLive>>

-----------------------------------------------------------------------------
(* executeBuyRound *)

\* Variant: a round row stamped when it is inserted, not when the job started.
buyRound_m(R, ts, success) ==
    [round_id |-> newRoundId(R), type |-> "buy", ts |-> now,
     txs |-> IF success THEN 1 ELSE 0, success |-> success]

\* The round row of a buy attempt: txs holds the signature, if any.
buyRound(R, ts, success) ==
    [round_id |-> newRoundId(R), type |-> "buy", ts |-> ts,
     txs |-> IF success THEN 1 ELSE 0, success |-> success]

\* executeBuyRound never rejects: its catch block turns every error into a
\* result, so the engine sees the body return.
BuyReturn(r) == Settle(r, "return")

\* Steps 1-4: getSolBalance, spendable, cap, minimum.
BuyBalance(r, res) ==
    /\ run[r].pc = "balance"
    /\ IF res = "ok"
       THEN /\ run' = [run EXCEPT ![r].pc = "swap"]
            /\ UNCHANGED <<alive, locks, botState, orphaned, cleanedLive>>
       ELSE BuyReturn(r)
    /\ UNCHANGED <<now, rounds>>

\* swapSolToToken: getSwapQuote, then executeSwap up to sendTransaction.
BuySwap(r, res) ==
    /\ run[r].pc = "swap"
    /\ IF res = "ok"
       THEN /\ run' = [run EXCEPT ![r].pc = "confirm"]
            /\ UNCHANGED <<alive, locks, botState, rounds, orphaned, cleanedLive>>
       ELSE /\ rounds' = insertRound(rounds, buyRound(rounds, run[r].start, FALSE))
            /\ BuyReturn(r)
    /\ UNCHANGED <<now>>

\* executeSwap: confirmTransaction, then insertRound and the logs.
BuyConfirm(r, res) ==
    /\ run[r].pc = "confirm"
    /\ rounds' = insertRound(rounds, buyRound(rounds, run[r].start, res = "ok"))
    /\ BuyReturn(r)
    /\ UNCHANGED <<now>>

-----------------------------------------------------------------------------
(* executeRewardRound *)

rewardRound(R, ts, success) ==
    [round_id |-> newRoundId(R), type |-> "reward", ts |-> ts,
     txs |-> IF success THEN 1 ELSE 0, success |-> success]

\* executeRewardRound never rejects either.
RewardReturn(r) == Settle(r, "return")

\* Steps 1-9, up to the call of executeTransfers.  "none": no tokens, no
\* eligible holder or no winner.
RewardPrepare(r, res) ==
    /\ run[r].pc = "prepare"
    /\ IF res = "ok"
       THEN /\ run' = [run EXCEPT ![r].pc = "transfer"]
            /\ UNCHANGED <<alive, locks, botState, orphaned, cleanedLive>>
       ELSE RewardReturn(r)
    /\ UNCHANGED <<now, rounds>>

\* executeTransfers: the batches are sent and confirmed ("ok": at least one
\* was); then steps 11-13.
RewardTransfer(r, res) ==
    /\ run[r].pc = "transfer"
    /\ rounds' = insertRound(rounds, rewardRound(rounds, run[r].start, res = "ok"))
    /\ RewardReturn(r)
    /\ UNCHANGED <<now>>

-----------------------------------------------------------------------------
(* executeBuyRound, steps 1-5: the amounts *)

\* SOL amounts are JavaScript numbers; the model holds them as whole numbers
\* of 1 / SubLamport lamport, so an amount need not be a whole lamport.
SubLamport == 2

\* lamports / 1e9
lamportsToSol(lamports) == lamports * SubLamport

\* Math.floor(sol * 1e9)
solToLamports(sol) == sol \div SubLamport

\* What the floating-point subtraction solBalance - solFeeReserve can lose
\* against the exact difference: nothing, or a fraction of a lamport.
Roundings == {0, 1}

\* getSolBalance, spendable, safety cap, minimum, and the swap's input.
buyAmounts(lamports, config, rounding) ==
    LET solBalance == lamportsToSol(lamports)
        spendable == solBalance - config.solFeeReserve - rounding
        spendableAmount == Max(0, spendable)
        actualBuyAmount == Min(spendableAmount, config.maxBuySolPerHour)
    IN  IF actualBuyAmount < config.minBuySol
        THEN [skipped |-> TRUE, spendableAmount |-> spendableAmount,
              actualBuyAmount |-> actualBuyAmount, spendLamports |-> 0]
        ELSE [skipped |-> FALSE, spendableAmount |-> spendableAmount,
              actualBuyAmount |-> actualBuyAmount,
              spendLamports |-> solToLamports(actualBuyAmount)]

NoAmounts == [skipped |-> TRUE, spendableAmount |-> 0, actualBuyAmount |-> 0,
              spendLamports |-> 0]

NoConfig == [solFeeReserve |-> 0, minBuySol |-> 0, maxBuySolPerHour |-> 0]

NoCalc == [stage |-> "none", lamports |-> 0, config |-> NoConfig, rounding |-> 0,
           result |-> NoAmounts]

\* Treasury balances (lamports) around the reserve, the minimum and the cap.
Balances ==
    {0, 20000000, 30000000, 35000000, 39999999, 40000000, 40000001, 100000000,
     229999999, 230000000, 230000001, 500000000}

\* SOL_FEE_RESERVE 0.03, MIN_BUY_SOL 0.01, MAX_BUY_SOL_PER_HOUR 0.2, and the
\* same with a fraction of a lamport more.
Configs ==
    [solFeeReserve : {lamportsToSol(30000000), lamportsToSol(30000000) + 1},
     minBuySol : {lamportsToSol(10000000), lamportsToSol(10000000) + 1},
     maxBuySolPerHour : {lamportsToSol(200000000), lamportsToSol(200000000) + 1}]

ComputeBuy ==
    /\ calc.stage = "input"
    /\ calc' = [calc EXCEPT !.stage = "done",
                            !.result = buyAmounts(calc.lamports, calc.config, calc.rounding)]
    /\ UNCHANGED <<storeVars, reward, lottery>>

-----------------------------------------------------------------------------
(* Reward amounts: rewards.ts steps 3-10, in raw token units (bigint) *)

MaxWinners == 3

BpsDenominator == 10000

\* bigint division: truncation toward zero (the operands are never negative).
bigintDiv(a, b) == a \div b

\* buildConfig: the reward percentage, capped.
rewardTokenPercentBps_m(envRewardBps, envMaxBps) == envRewardBps

rewardTokenPercentBps(envRewardBps, envMaxBps) == Min(envRewardBps, envMaxBps)

\* Step 4.
distributeRaw(treasuryRaw, bps) == bigintDiv(treasuryRaw * bps, BpsDenominator)

\* Step 8.
perWinnerRaw_m(distribute, nWinners) == bigintDiv(distribute + nWinners - 1, nWinners)

perWinnerRaw(distribute, nWinners) == bigintDiv(distribute, nWinners)

NoReward ==
    [stage |-> "none", treasuryRaw |-> 0, envRewardBps |-> 0, envMaxBps |-> 0,
     nWinners |-> 0, maxSendsPerTx |-> 1, dryRun |-> FALSE,
     distributeRaw |-> 0, perWinnerRaw |-> 0, i |-> 0, attempted |-> 0, sent |-> 0,
     signatures |-> 0, totalDistributed |-> 0, success |-> FALSE]

\* Treasury token balances (raw units), some of them too small for a share
\* or a per-winner amount of a whole unit.
TreasuryBalances == {0, 1, 7, 10, 33, 100}

\* REWARD_TOKEN_PERCENT_BPS and MAX_REWARD_TOKEN_PERCENT_PER_ROUND: the
\* defaults, and values on the other side of each other.
EnvRewardBps == {2500, 9000}

EnvMaxBps == {3000, 9500}

\* Steps 3, 4 and 8, and step 10 of a dry run; nWinners is the length of the
\* list selectWinners returned (the round returns before step 8 when it is 0).
RewardAmounts ==
    /\ reward.stage = "input"
    /\ LET bps == rewardTokenPercentBps(reward.envRewardBps, reward.envMaxBps)
           distribute == distributeRaw(reward.treasuryRaw, bps)
           perWinner == perWinnerRaw(distribute, reward.nWinners)
       IN  IF reward.treasuryRaw = 0
           THEN reward' = [reward EXCEPT !.stage = "done"]
           ELSE IF reward.dryRun
           THEN reward' = [reward EXCEPT !.stage = "done",
                                         !.distributeRaw = distribute,
                                         !.perWinnerRaw = perWinner,
                                         !.signatures = 2,
                                         !.totalDistributed = perWinner * reward.nWinners,
                                         !.success = TRUE]
           ELSE reward' = [reward EXCEPT !.stage = "transfer",
                                         !.distributeRaw = distribute,
                                         !.perWinnerRaw = perWinner]
    /\ UNCHANGED <<storeVars, calc, lottery>>

\* executeTransfers: one batch of at most maxSendsPerTx transfers of
\* amountRaw each, confirmed or failed; after the last batch, the rest of
\* step 10.
TransferBatch(res) ==
    /\ reward.stage = "transfer"
    /\ LET batch == Min(reward.maxSendsPerTx, reward.nWinners - reward.i)
           next == reward.i + reward.maxSendsPerTx
           amount == batch * reward.perWinnerRaw
           signatures == reward.signatures + (IF res = "ok" THEN 1 ELSE 0)
           last == next >= reward.nWinners
       IN  reward' = [reward EXCEPT
                !.i = next,
                !.attempted = @ + amount,
                !.sent = @ + (IF res = "ok" THEN amount ELSE 0),
                !.signatures = signatures,
                !.stage = IF last THEN "done" ELSE "transfer",
                !.totalDistributed =
                    IF last
                    THEN reward.perWinnerRaw * (IF signatures > 0 THEN reward.nWinners ELSE 0)
                    ELSE @,
                !.success = IF last THEN signatures > 0 ELSE @]
    /\ UNCHANGED <<storeVars, calc, lottery>>

-----------------------------------------------------------------------------
(* Lottery: scoring.ts *)

\* A 32-bit integer is a pair <<high, low>> of 16-bit halves.
Half == 65536

RECURSIVE bitwise(_, _, _, _)
bitwise(x, y, op, n) ==
    IF n = 0 THEN 0
    ELSE (IF op = "xor" THEN ((x % 2) + (y % 2)) % 2
          ELSE IF (x % 2) + (y % 2) > 0 THEN 1 ELSE 0)
         + 2 * bitwise(x \div 2, y \div 2, op, n - 1)

\* a ^ b, a | b, a >>> k (k < 16), a + b, Math.imul(a, b)
xor32(a, b) == <<bitwise(a[1], b[1], "xor", 16), bitwise(a[2], b[2], "xor", 16)>>

or32(a, b) == <<bitwise(a[1], b[1], "or", 16), bitwise(a[2], b[2], "or", 16)>>

shr32(a, k) == <<a[1] \div (2^k), (a[2] \div (2^k)) + (a[1] % (2^k)) * (2^(16 - k))>>

add32(a, b) ==
    LET low == a[2] + b[2]
    IN  <<(a[1] + b[1] + (low \div Half)) % Half, low % Half>>

imul(a, b) ==
    LET mul16(x, y) ==
            LET p0 == x * (y % 256)
                p1 == x * (y \div 256)
                low == p0 + (p1 % 256) * 256
            IN  <<((p1 \div 256) + (low \div Half)) % Half, low % Half>>
        ll == mul16(a[2], b[2])
        lh == mul16(a[2], b[1])
        hl == mul16(a[1], b[2])
    IN  <<(ll[1] + lh[2] + hl[2]) % Half, ll[2]>>

\* mulberry32(seed): the state of the closure it returns.
mulberry32(seed) == seed

\* One call of the closure: its next state, and the 32-bit numerator of the
\* number in [0, 1) it returns.
random(state) ==
    LET seed == add32(state, <<27947, 31221>>)
        t1 == imul(xor32(seed, shr32(seed, 15)), or32(seed, <<0, 1>>))
        t2 == xor32(t1, add32(t1, imul(xor32(t1, shr32(t1, 7)), or32(t1, <<0, 61>>))))
    IN  [state |-> seed, value |-> xor32(t2, shr32(t2, 14))]

\* `${n}`: the character codes of the decimal digits of n.
RECURSIVE toString(_)
toString(n) == IF n < 10 THEN <<48 + n>> ELSE Append(toString(n \div 10), 48 + (n % 10))

RECURSIVE hashChars(_, _)
hashChars(hash, chars) ==
    IF chars = <<>> THEN hash
    ELSE hashChars(add32(imul(hash, <<0, 31>>), <<0, Head(chars)>>), Tail(chars))

\* Math.abs of a 32-bit integer read as signed.
abs32(h) ==
    IF h[1] < 32768 THEN h
    ELSE <<(Half - h[1] - (IF h[2] = 0 THEN 0 ELSE 1)) % Half, (Half - h[2]) % Half>>

createSeed(timestamp, tokenMint, blockhash) ==
    abs32(hashChars(<<0, 0>>, toString(timestamp) \o <<45>> \o tokenMint \o <<45>> \o blockhash))

\* remaining.reduce((sum, h) => sum + h.weight, 0)
RECURSIVE totalWeight(_)
totalWeight(remaining) ==
    IF remaining = <<>> THEN 0 ELSE Head(remaining).weight + totalWeight(Tail(remaining))

\* random() * totalWeight < cumulative, for whole weights
isBelow(value, total, cumulative) ==
    (value[1] * total + (value[2] * total) \div Half) \div Half < cumulative

\* The inner loop of selectWinners; indices count from 1.
RECURSIVE findWinner(_, _, _, _, _)
findWinner(remaining, value, total, j, cumulative) ==
    IF j > Len(remaining) THEN 1
    ELSE IF isBelow(value, total, cumulative + remaining[j].weight) THEN j
    ELSE findWinner(remaining, value, total, j + 1, cumulative + remaining[j].weight)

\* remaining.splice(winnerIndex, 1)
splice_m(remaining, winnerIndex) == remaining

splice(remaining, winnerIndex) ==
    [k \in 1 .. (Len(remaining) - 1) |->
        IF k < winnerIndex THEN remaining[k] ELSE remaining[k + 1]]

\* The outer loop of selectWinners, with the history of its picks and the
\* state the closure is left in.
RECURSIVE selectLoop(_, _, _, _, _, _)
selectLoop(remaining, winners, picks, state, i, winnersCount) ==
    IF i >= winnersCount \/ totalWeight(remaining) <= 0
    THEN [winners |-> winners, picks |-> picks, state |-> state]
    ELSE LET rnd == random(state)
             winnerIndex == findWinner(remaining, rnd.value, totalWeight(remaining), 1, 0)
         IN  selectLoop(splice(remaining, winnerIndex),
                        Append(winners, remaining[winnerIndex]),
                        Append(picks, [remaining |-> remaining, value |-> rnd.value,
                                       index |-> winnerIndex]),
                        rnd.state, i + 1, winnersCount)

selectFrom(eligible, count, state) ==
    IF Len(eligible) = 0
    THEN [winners |-> <<>>, picks |-> <<>>, state |-> state]
    ELSE selectLoop(eligible, <<>>, <<>>, state, 0, Min(count, Len(eligible)))

selectWinners(eligible, count, context) ==
    selectFrom(eligible, count, mulberry32(context.seed)).winners

MaxEligible == 3

MaxCount == 3

Wallets == <<"w1", "w2", "w3", "w4", "w5">>

\* Lottery weights, in whole units.
Weights == {0, 1, 2, 7}

\* Eligible lists: the first n wallets, in the order of the query, each with
\* a weight.
EligibleLists ==
    UNION {{[i \in 1 .. n |-> [wallet |-> Wallets[i], weight |-> f[i]]] :
              f \in [1 .. n -> Weights]} : n \in 0 .. MaxEligible}

\* config.tokenMint.toBase58() and the blockhashes of the ledger, as
\* character codes.
TokenMint == <<77>>

Blockhashes == {<<66>>, <<67>>, <<68>>}

NoContext == [seed |-> <<0, 0>>, timestamp |-> 0, tokenMint |-> <<>>, blockhash |-> <<>>]

\* What a reward round leaves of its lottery: the rounds row (ts, meta_json)
\* and the winners of the RewardLogEntry.
NoRewardRecord == [ts |-> 0, winnersCount |-> 0, lotterySeed |-> <<0, 0>>, lotteryBlockhash |-> <<>>]

NoLottery ==
    [stage |-> "none", eligible |-> <<>>, count |-> 0, timestamp |-> 0,
     context |-> NoContext, winners |-> <<>>, picks |-> <<>>, again |-> <<>>,
     prng |-> <<0, 0>>, recorded |-> FALSE, round |-> NoRewardRecord, log |-> <<>>]

createLotteryContext(timestamp, blockhash) ==
    [seed |-> createSeed(timestamp, TokenMint, blockhash), timestamp |-> timestamp,
     tokenMint |-> TokenMint, blockhash |-> blockhash]

\* Step 6 of executeRewardRound.
CreateLotteryContext ==
    /\ lottery.stage = "input"
    /\ \E blockhash \in Blockhashes :
          lottery' = [lottery EXCEPT !.stage = "context",
                          !.context = createLotteryContext(lottery.timestamp, blockhash)]
    /\ UNCHANGED <<storeVars, calc, reward>>

\* An invocation that draws from the closure an earlier invocation left
\* behind.
SelectWinners_m ==
    /\ lottery.stage \in {"context", "selected"}
    /\ LET res == selectFrom(lottery.eligible, lottery.count,
                             IF lottery.stage = "context"
                             THEN mulberry32(lottery.context.seed) ELSE lottery.prng)
       IN  lottery' =
               IF lottery.stage = "context"
               THEN [lottery EXCEPT !.stage = "selected", !.winners = res.winners,
                                    !.picks = res.picks, !.prng = res.state]
               ELSE [lottery EXCEPT !.stage = "reselected", !.again = res.winners,
                                    !.prng = res.state]
    /\ UNCHANGED <<storeVars, calc, reward>>

\* Step 7: an invocation of selectWinners, and a second one with the same
\* arguments.
SelectWinners ==
    /\ lottery.stage \in {"context", "selected"}
    /\ LET res == selectFrom(lottery.eligible, lottery.count, mulberry32(lottery.context.seed))
       IN  lottery' =
               IF lottery.stage = "context"
               THEN [lottery EXCEPT !.stage = "selected", !.winners = res.winners,
                                    !.picks = res.picks, !.prng = res.state]
               ELSE [lottery EXCEPT !.stage = "reselected", !.again = res.winners,
                                    !.prng = res.state]
    /\ UNCHANGED <<storeVars, calc, reward>>

\* Steps 12 and 13 of executeRewardRound, reached with at least one winner:
\* insertRound with its meta, writeRewardLog and appendHistoryLog with the
\* winners. The eligible list is a local of the round and is gone when it
\* returns.
RecordLottery ==
    /\ lottery.stage = "selected"
    /\ Len(lottery.winners) > 0
    /\ lottery' = [lottery EXCEPT
            !.stage = "recorded",
            !.recorded = TRUE,
            !.eligible = <<>>,
            !.picks = <<>>,
            !.round = [ts |-> lottery.timestamp, winnersCount |-> Len(lottery.winners),
                       lotterySeed |-> lottery.context.seed,
                       lotteryBlockhash |-> lottery.context.blockhash],
            !.log = lottery.winners]
    /\ UNCHANGED <<storeVars, calc, reward>>

-----------------------------------------------------------------------------
(* Holders: db.ts, scan.ts, age.ts, balances.ts, scoring.ts *)

\* SQL NULL; no timestamp, balance or amount of the model is -1.
Null == -1

HolderWallets == {"w1", "w2"}

\* A wallet without a row, with the defaults of the columns.
NoHolder ==
    [present |-> FALSE, first_seen_ts |-> Null, last_balance_raw |-> Null,
     last_balance_check_ts |-> Null, last_decrease_ts |-> Null,
     continuity_start_ts |-> Null, streak_rounds |-> 0, twb_score |-> 0,
     cumulative_buy_sol |-> 0, cumulative_buy_sol_low_confidence |-> 0,
     is_blacklisted |-> FALSE]

NoHolders == [w \in HolderWallets |-> NoHolder]

\* Variant: INSERT OR REPLACE, the columns left out taking their defaults.
upsertHolder_m(H, wallet, updates) ==
    [H EXCEPT ![wallet] =
        [f \in DOMAIN NoHolder |->
            IF f = "present" THEN TRUE
            ELSE IF f \in DOMAIN updates THEN updates[f]
            ELSE NoHolder[f]]]

\* INSERT ... ON CONFLICT(wallet) DO UPDATE SET the columns of updates.
upsertHolder(H, wallet, updates) ==
    [H EXCEPT ![wallet] =
        [f \in DOMAIN NoHolder |->
            IF f = "present" THEN TRUE
            ELSE IF f \in DOMAIN updates THEN updates[f]
            ELSE H[wallet][f]]]

\* WALLET_MIN_AGE_DAYS, MIN_CONTINUITY_SECONDS, MIN_CUMULATIVE_BUY_SOL (in
\* units of SOL) and WINNERS_PER_ROUND.
HolderConfig ==
    [walletMinAgeDays |-> 1, minContinuitySeconds |-> 120, minCumulativeBuySol |-> 1,
     winnersPerRound |-> 1]

SecondsPerDay == 86400

\* The WHERE clause of getEligibleHolders.
isEligibleRow_m(row, t, minAgeDays, minContinuitySeconds, minCumulativeBuySol) ==
    /\ row.present
    /\ ~row.is_blacklisted
    /\ row.first_seen_ts # Null
    /\ row.first_seen_ts <= t - minAgeDays * SecondsPerDay
    /\ row.cumulative_buy_sol >= minCumulativeBuySol
    /\ row.last_balance_raw # Null
    /\ row.last_balance_raw > 0

isEligibleRow(row, t, minAgeDays, minContinuitySeconds, minCumulativeBuySol) ==
    /\ row.present
    /\ ~row.is_blacklisted
    /\ row.first_seen_ts # Null
    /\ row.first_seen_ts <= t - minAgeDays * SecondsPerDay
    /\ row.continuity_start_ts # Null
    /\ row.continuity_start_ts <= t - minContinuitySeconds
    /\ row.cumulative_buy_sol >= minCumulativeBuySol
    /\ row.last_balance_raw # Null
    /\ row.last_balance_raw > 0

\* The rows come in the order of the table.
getEligibleHolders(H, t, minAgeDays, minContinuitySeconds, minCumulativeBuySol) ==
    SelectSeq(Wallets,
              LAMBDA w : /\ w \in HolderWallets
                         /\ isEligibleRow(H[w], t, minAgeDays, minContinuitySeconds,
                                          minCumulativeBuySol))

\* The wallets of getEligibleHoldersWithWeights, before the weights.
getEligibleHoldersWithWeights(H, t) ==
    SelectSeq(getEligibleHolders(H, t, HolderConfig.walletMinAgeDays,
                                 HolderConfig.minContinuitySeconds,
                                 HolderConfig.minCumulativeBuySol),
              LAMBDA w : /\ H[w].first_seen_ts \notin {Null, 0}
                         /\ H[w].last_balance_raw \notin {Null, 0})

updateHolderBalance_m(H, wallet, balanceRaw, checkTs, previousBalanceRaw) ==
    upsertHolder(H, wallet,
        [last_balance_raw |-> balanceRaw, last_balance_check_ts |-> checkTs,
         continuity_start_ts |-> IF H[wallet].continuity_start_ts = Null THEN checkTs
                                 ELSE H[wallet].continuity_start_ts])

updateHolderBalance(H, wallet, balanceRaw, checkTs, previousBalanceRaw) ==
    LET holder == H[wallet]
        prevBalance == IF previousBalanceRaw = Null THEN 0 ELSE previousBalanceRaw
        decreased == balanceRaw < prevBalance
    IN  upsertHolder(H, wallet,
            [last_balance_raw |-> balanceRaw,
             last_balance_check_ts |-> checkTs,
             last_decrease_ts |-> IF decreased THEN checkTs ELSE holder.last_decrease_ts,
             continuity_start_ts |-> IF decreased \/ holder.continuity_start_ts = Null
                                     THEN checkTs ELSE holder.continuity_start_ts,
             streak_rounds |-> IF decreased THEN 0 ELSE holder.streak_rounds,
             twb_score |-> IF decreased THEN 0 ELSE holder.twb_score])

incrementBuySol_m(H, wallet, solAmount, highConfidence) ==
    upsertHolder(H, wallet, [cumulative_buy_sol |-> H[wallet].cumulative_buy_sol + solAmount])

incrementBuySol(H, wallet, solAmount, highConfidence) ==
    IF highConfidence
    THEN upsertHolder(H, wallet,
            [cumulative_buy_sol |-> H[wallet].cumulative_buy_sol + solAmount])
    ELSE upsertHolder(H, wallet,
            [cumulative_buy_sol_low_confidence |->
                H[wallet].cumulative_buy_sol_low_confidence + solAmount])

\* Variant: an update that adds to the TWB score and leaves the streak.
updateStreakAndTwb_m(H, wallet, tokenBalanceUi, rewardIntervalSeconds) ==
    IF ~H[wallet].present THEN H
    ELSE upsertHolder(H, wallet,
            [twb_score |-> H[wallet].twb_score + tokenBalanceUi * rewardIntervalSeconds])

\* twb_score is held in token-seconds (3600 to the token-hour).
updateStreakAndTwb(H, wallet, tokenBalanceUi, rewardIntervalSeconds) ==
    IF ~H[wallet].present THEN H
    ELSE upsertHolder(H, wallet,
            [streak_rounds |-> H[wallet].streak_rounds + 1,
             twb_score |-> H[wallet].twb_score + tokenBalanceUi * rewardIntervalSeconds])

RECURSIVE updateEligibleHoldersStreakAndTwb(_, _, _)
updateEligibleHoldersStreakAndTwb(H, eligible, rewardIntervalSeconds) ==
    IF eligible = <<>> THEN H
    ELSE updateEligibleHoldersStreakAndTwb(
            updateStreakAndTwb(H, Head(eligible), H[Head(eligible)].last_balance_raw,
                               rewardIntervalSeconds),
            Tail(eligible), rewardIntervalSeconds)

MaxBuys == 2

MaxDraws == 2

\* Oldest block times the ledger reports for a wallet: a day before the
\* start, and a minute later.
BlockTimes == {-86400, -86340}

TokenBalances == {0, 400, 500}

Confidences == {"high", "medium", "low"}

NoDraw == [n |-> 0, ts |-> 0, eligible |-> <<>>, winners |-> <<>>]

NoTasks ==
    [scan |-> [p \in Procs |-> [w \in HolderWallets |-> "idle"]],
     refresh |-> [stage |-> "idle", ts |-> 0, pending |-> {},
                  snapshot |-> [w \in HolderWallets |-> Null]],
     detected |-> [w \in HolderWallets |-> [high |-> 0, low |-> 0]],
     draw |-> NoDraw,
     job |-> [p \in Procs |->
                [stage |-> "idle", ts |-> 0, pending |-> {}, started |-> 0,
                 snapshot |-> [w \in HolderWallets |-> Null]]]]

\* scanTokenActivity, holder discovery: getHolder(holder) finds no row.
ScanCheck(p, w) ==
    /\ tasks.scan[p][w] = "idle"
    /\ ~holders[w].present
    /\ tasks' = [tasks EXCEPT !.scan[p][w] = "absent"]
    /\ UNCHANGED holders

\* ... and the row is inserted; the wallet joins result.newHolders.
ScanInsert(p, w) ==
    /\ tasks.scan[p][w] = "absent"
    /\ holders' = upsertHolder(holders, w, << >>)
    /\ tasks' = [tasks EXCEPT !.scan[p][w] = "new"]

\* scanTokenActivity, a detected buy of one unit of SOL.
ScanBuy(w, confidence) ==
    /\ tasks.detected[w].high + tasks.detected[w].low < MaxBuys
    /\ holders' = incrementBuySol(holders, w, 1, confidence = "high")
    /\ tasks' = [tasks EXCEPT !.detected[w] =
                    IF confidence = "high" THEN [@ EXCEPT !.high = @ + 1]
                    ELSE [@ EXCEPT !.low = @ + 1]]

\* computeWalletAge, up to its first request: the cached value is returned
\* if there is one.
AgeStart(p, w) ==
    /\ tasks.scan[p][w] = "new"
    /\ tasks' = [tasks EXCEPT !.scan[p][w] =
                    IF holders[w].first_seen_ts \notin {Null, 0} THEN "done" ELSE "aging"]
    /\ UNCHANGED holders

\* computeWalletAge, after its last page: the oldest block time found, if
\* any, is written.
AgeFinish(p, w, oldestBlockTime) ==
    /\ tasks.scan[p][w] = "aging"
    /\ holders' = IF oldestBlockTime \notin {Null, 0}
                  THEN upsertHolder(holders, w, [first_seen_ts |-> oldestBlockTime])
                  ELSE holders
    /\ tasks' = [tasks EXCEPT !.scan[p][w] = "done"]

\* computeWalletAge: a request throws; the catch logs and returns null.
AgeFail(p, w) ==
    /\ tasks.scan[p][w] = "aging"
    /\ tasks' = [tasks EXCEPT !.scan[p][w] = "failed"]
    /\ UNCHANGED holders

\* scanTokenActivity, holder discovery: getHolder(holder) finds the row, and
\* the wallet is left out of result.newHolders.
ScanSight(p, w) ==
    /\ tasks.scan[p][w] = "idle"
    /\ holders[w].present
    /\ tasks' = [tasks EXCEPT !.scan[p][w] = "seen"]
    /\ UNCHANGED holders

\* The scan and the age computations it started are over; a later scan of
\* the process will meet the wallet again.
ScanAgain(p, w) ==
    /\ tasks.scan[p][w] \in {"seen", "done", "failed"}
    /\ tasks' = [tasks EXCEPT !.scan[p][w] = "idle"]
    /\ UNCHANGED holders

\* refreshAllBalances up to its first batch: getAllHolders and now.
RefreshStart ==
    /\ tasks.refresh.stage = "idle"
    /\ tasks.draw.n < MaxDraws
    /\ \E w \in HolderWallets : holders[w].present
    /\ tasks' = [tasks EXCEPT !.refresh =
                    [stage |-> "running", ts |-> now,
                     pending |-> {w \in HolderWallets : holders[w].present},
                     snapshot |-> [w \in HolderWallets |-> holders[w].last_balance_raw]]]
    /\ UNCHANGED holders

\* refreshHolderBalance for one holder of the batch.
RefreshHolder(w, balanceRaw) ==
    /\ tasks.refresh.stage = "running"
    /\ w \in tasks.refresh.pending
    /\ holders' = updateHolderBalance(holders, w, balanceRaw, tasks.refresh.ts,
                                      tasks.refresh.snapshot[w])
    /\ tasks' = [tasks EXCEPT !.refresh.pending = @ \ {w},
                              !.refresh.stage = IF tasks.refresh.pending = {w}
                                                THEN "done" ELSE "running"]

\* What getAccount(connection, ata) gives: the account with its amount, or
\* an error thrown: the account does not exist, or the request failed.
Accounts ==
    {[error |-> "none", amount |-> b] : b \in TokenBalances} \cup
    {[error |-> e, amount |-> 0] : e \in {"TokenAccountNotFoundError", "fetch failed"}}

\* let balanceRaw = '0'; try { balanceRaw = (await getAccount(...)).amount } catch { }
fetchedBalanceRaw(account) == IF account.error = "none" THEN account.amount ELSE 0

\* refreshHolderBalance for one holder of the batch, from getAccount on.
RefreshFetch(w, account) == RefreshHolder(w, fetchedBalanceRaw(account))

\* A reward job of process p gets its lock and begins: refreshAllBalances
\* up to its first batch.  The one-shot process has run main's
\* clearStaleLocks just before.
JobRefreshStart(p) ==
    /\ tasks.job[p].stage = "idle"
    /\ tasks.job[p].started < MaxDraws
    /\ \E w \in HolderWallets : holders[w].present
    /\ LET L == IF p = "cli" THEN clearStaleLocks(locks, maxLockAge, now) ELSE locks
       IN  /\ canAcquireLock(L, "reward_job")
           /\ locks' = acquireLock(L, "reward_job", now, p)
    /\ tasks' = [tasks EXCEPT !.job[p] =
                    [stage |-> "running", ts |-> now, started |-> @.started + 1,
                     pending |-> {w \in HolderWallets : holders[w].present},
                     snapshot |-> [w \in HolderWallets |-> holders[w].last_balance_raw]]]
    /\ UNCHANGED holders

\* refreshHolderBalance for one holder of the batch, in the job of process p.
JobRefreshHolder(p, w, account) ==
    /\ tasks.job[p].stage = "running"
    /\ w \in tasks.job[p].pending
    /\ holders' = updateHolderBalance(holders, w, fetchedBalanceRaw(account),
                                      tasks.job[p].ts, tasks.job[p].snapshot[w])
    /\ tasks' = [tasks EXCEPT !.job[p].pending = @ \ {w}]
    /\ UNCHANGED locks

\* The rest of the job, and the finally block of the engine.
JobRefreshEnd(p) ==
    /\ tasks.job[p].stage = "running"
    /\ tasks.job[p].pending = {}
    /\ tasks' = [tasks EXCEPT !.job[p].stage = "idle"]
    /\ locks' = releaseLock(locks, "reward_job")
    /\ UNCHANGED holders

\* executeRewardRound steps 5 to 11 after the refresh: the eligible holders,
\* their weights, the lottery, and the update of streak and TWB.
RewardDraw ==
    /\ tasks.refresh.stage = "done"
    /\ LET eligible == getEligibleHoldersWithWeights(holders, now)
       IN  \E weight \in [HolderWallets -> {1, 7}] :
             LET list == [k \in 1 .. Len(eligible) |->
                            [wallet |-> eligible[k], weight |-> weight[eligible[k]]]]
                 winners == selectWinners(list, HolderConfig.winnersPerRound,
                                createLotteryContext(now, <<66>>))
             IN  /\ tasks' = [tasks EXCEPT
                        !.refresh.stage = "idle",
                        !.draw = [n |-> tasks.draw.n + 1, ts |-> now,
                                  eligible |-> eligible,
                                  winners |-> [k \in 1 .. Len(winners) |-> winners[k].wallet]]]
                 /\ holders' = IF eligible = <<>> THEN holders
                               ELSE updateEligibleHoldersStreakAndTwb(
                                        holders, eligible, RewardIntervalSeconds)

\* executeRewardRound steps 5 to 9: the eligible holders and the winners;
\* the round returns when there is none, and otherwise awaits its transfers.
RewardSelect ==
    /\ tasks.refresh.stage = "done"
    /\ LET eligible == getEligibleHoldersWithWeights(holders, now)
       IN  \E weight \in [HolderWallets -> {1, 7}] :
             LET list == [k \in 1 .. Len(eligible) |->
                            [wallet |-> eligible[k], weight |-> weight[eligible[k]]]]
                 winners == selectWinners(list, HolderConfig.winnersPerRound,
                                createLotteryContext(now, <<66>>))
             IN  tasks' = [tasks EXCEPT
                    !.refresh.stage = IF winners = <<>> THEN "idle" ELSE "transfers",
                    !.draw = [n |-> tasks.draw.n + 1, ts |-> now,
                              eligible |-> eligible,
                              winners |-> [k \in 1 .. Len(winners) |-> winners[k].wallet]]]
    /\ UNCHANGED <<holders, rounds>>

\* executeRewardRound from the return of executeTransfers on: the rest of
\* step 10, the update of streak and TWB (step 11) and the round row
\* (step 12), with no await between them.
RewardSettle(res) ==
    /\ tasks.refresh.stage = "transfers"
    /\ holders' = updateEligibleHoldersStreakAndTwb(holders, tasks.draw.eligible,
                                                    RewardIntervalSeconds)
    /\ rounds' = insertRound(rounds, rewardRound(rounds, tasks.draw.ts, res = "ok"))
    /\ tasks' = [tasks EXCEPT !.refresh.stage = "idle"]

-----------------------------------------------------------------------------
(* Scans: scan.ts scanTokenActivity, over a ledger that grows *)

MaxTx == 3

MaxScans == 3

\* The transactions of the token mint, named 1, 2, ... in order of arrival:
\* the holders each one touches and the buy detected in it, of one unit of
\* SOL.
LedgerTx ==
    <<[holders |-> {"w1"}, buy |-> "high", wallet |-> "w1"],
      [holders |-> {"w1", "w2"}, buy |-> "none", wallet |-> "w1"],
      [holders |-> {"w2"}, buy |-> "medium", wallet |-> "w2"],
      [holders |-> {"w1"}, buy |-> "low", wallet |-> "w1"]>>

\* The page size of a request (100 in the code) and SIGNATURE_SCAN_LIMIT_PER_TICK
\* and BOOTSTRAP_SIGNATURE_LIMIT, scaled to the ledger of the model.
ScanConfig == [batch |-> 2, signatureScanLimitPerTick |-> 2, bootstrapSignatureLimit |-> 4]

\* The initial and periodic scan of the scheduler (one at a time, under
\* scanJobRunning), the scan at the start of a reward job, and --bootstrap.
Scanners == {"periodic", "reward", "bootstrap"}

\* The locals of scanTokenActivity and its ScanResult.
NoScanner ==
    [pc |-> "idle", lastProcessedSig |-> Null, limit |-> 0, paginationToken |-> Null,
     totalFetched |-> 0, lastSignature |-> Null, newHolders |-> {}, buysDetected |-> 0,
     transactionsProcessed |-> 0, reachedLastProcessed |-> FALSE, threw |-> FALSE]

\* malformed: the transactions of the ledger that lack a field the parsing
\* reads (tokenTransfers, accountData), so that reading them throws.
NoScan ==
    [ledger |-> 0, malformed |-> {}, cursor |-> Null, started |-> 0,
     credited |-> [sig \in 1 .. MaxTx + 1 |-> 0],
     proc |-> [p \in Scanners |-> NoScanner]]

\* GET /v0/addresses/<mint>/transactions?limit=&before=: the newest
\* transactions, or those before the pagination token, newest first.
fetchHeliusParsedTransactions(ledger, limit, paginationToken) ==
    LET top == IF paginationToken = Null THEN ledger ELSE paginationToken - 1
        n == Min(limit, top)
    IN  [k \in 1 .. n |-> top + 1 - k]

\* A transaction that ends the scan: the last processed signature.
reachesCursor_m(sig, lastProcessedSig) == FALSE

reachesCursor(sig, lastProcessedSig) == lastProcessedSig # Null /\ sig = lastProcessedSig

\* The loop over the transactions of one response.
RECURSIVE processTransactions(_, _, _)
processTransactions(st, page, lastProcessedSig) ==
    IF page = << >> THEN st
    ELSE LET sig == Head(page)
             tx == LedgerTx[sig]
         IN  IF reachesCursor(sig, lastProcessedSig)
             THEN [st EXCEPT !.local.reachedLastProcessed = TRUE]
             ELSE IF sig \in st.malformed
             THEN [st EXCEPT !.local.threw = TRUE,
                             !.local.lastSignature = IF @ = Null THEN sig ELSE @]
             ELSE LET discovered == {w \in tx.holders : ~st.holders[w].present}
                      inserted == [w \in HolderWallets |->
                                      IF w \in discovered
                                      THEN upsertHolder(st.holders, w, << >>)[w]
                                      ELSE st.holders[w]]
                      counted == IF tx.buy = "none" THEN inserted
                                 ELSE incrementBuySol(inserted, tx.wallet, 1, tx.buy = "high")
                  IN  processTransactions(
                          [malformed |-> st.malformed,
                           holders |-> counted,
                           credited |-> IF tx.buy = "none" THEN st.credited
                                        ELSE [st.credited EXCEPT ![sig] = @ + 1],
                           local |-> [st.local EXCEPT
                               !.lastSignature = IF @ = Null THEN sig ELSE @,
                               !.newHolders = @ \cup discovered,
                               !.buysDetected = @ + (IF tx.buy = "none" THEN 0 ELSE 1),
                               !.transactionsProcessed = @ + 1]],
                          Tail(page), lastProcessedSig)

\* A transaction of the token mint lands on the ledger.
LedgerAppend ==
    /\ scan.ledger < MaxTx
    /\ scan' = [scan EXCEPT !.ledger = @ + 1]
    /\ UNCHANGED holders

\* scanTokenActivity up to its first request: the cursor is read, unless
\* the scan is a bootstrap.
ScanStart(p) ==
    /\ scan.proc[p].pc = "idle"
    /\ scan.started < MaxScans
    /\ scan' = [scan EXCEPT
            !.started = @ + 1,
            !.proc[p] = [NoScanner EXCEPT
                !.pc = "fetch",
                !.lastProcessedSig = IF p = "bootstrap" THEN Null ELSE scan.cursor,
                !.limit = IF p = "bootstrap" THEN ScanConfig.bootstrapSignatureLimit
                          ELSE ScanConfig.signatureScanLimitPerTick]]
    /\ UNCHANGED holders

\* A malformed transaction of the token mint lands on the ledger.
LedgerAppendMalformed ==
    /\ scan.ledger < MaxTx
    /\ scan' = [scan EXCEPT !.ledger = @ + 1, !.malformed = @ \cup {scan.ledger + 1}]
    /\ UNCHANGED holders

\* A response arrives and is processed; the loop goes on to the next
\* request, or ends and the scan saves its state, or a transaction throws
\* and the catch around the loop logs the error and returns.
ScanPage(p) ==
    /\ scan.proc[p].pc = "fetch"
    /\ LET local == scan.proc[p]
           batchSize == Min(ScanConfig.batch, local.limit - local.totalFetched)
           page == fetchHeliusParsedTransactions(scan.ledger, batchSize, local.paginationToken)
           st == processTransactions(
                     [malformed |-> scan.malformed, holders |-> holders,
                      credited |-> scan.credited, local |-> local],
                     page, local.lastProcessedSig)
           totalFetched == local.totalFetched + Len(page)
           token == IF Len(page) = batchSize /\ page # << >> THEN page[Len(page)] ELSE Null
           threw == st.local.threw
           ends == \/ page = << >>
                   \/ threw
                   \/ st.local.reachedLastProcessed
                   \/ token = Null
                   \/ totalFetched >= local.limit
           counted == page # << >> /\ ~st.local.reachedLastProcessed /\ ~threw
       IN  /\ holders' = st.holders
           /\ scan' = [scan EXCEPT
                  !.credited = st.credited,
                  !.cursor = IF ends /\ ~threw /\ st.local.lastSignature # Null
                             THEN st.local.lastSignature ELSE @,
                  !.proc[p] = [st.local EXCEPT
                      !.pc = IF ends THEN "idle" ELSE "fetch",
                      !.totalFetched = IF counted THEN totalFetched ELSE @,
                      !.paginationToken = IF counted THEN token ELSE @]]

\* A request fails: the scan logs the error and returns what it has, its
\* state unsaved.
ScanFail(p) ==
    /\ scan.proc[p].pc = "fetch"
    /\ scan' = [scan EXCEPT !.proc[p].pc = "idle"]
    /\ UNCHANGED holders

-----------------------------------------------------------------------------
(* The status server: status-server.ts *)

\* Variant: a bot that is still online at the age limit.
isBotOnline_m(B, t, maxHeartbeatAgeSeconds) ==
    IF B.heartbeat_ts \in {Null, 0} THEN FALSE
    ELSE t - B.heartbeat_ts <= maxHeartbeatAgeSeconds

\* getHeartbeat() is null without a row, and !heartbeat also holds for 0.
isBotOnline(B, t, maxHeartbeatAgeSeconds) ==
    IF B.heartbeat_ts \in {Null, 0} THEN FALSE
    ELSE t - B.heartbeat_ts < maxHeartbeatAgeSeconds

\* Infinity without a heartbeat, which buildStatus reports as -1.
getHeartbeatAge(B, t) == IF B.heartbeat_ts \in {Null, 0} THEN -1 ELSE t - B.heartbeat_ts

NoStatus ==
    [now |-> 0, botOnline |-> FALSE, heartbeatAgeSeconds |-> -1, safeMode |-> FALSE,
     safeModeReason |-> Null, lastBuyTs |-> Null, lastRewardTs |-> Null,
     nextBuyTs |-> Null, nextRewardTs |-> Null, buyInProgress |-> FALSE,
     rewardInProgress |-> FALSE]

\* buildStatus(), without the constants of the configuration, the
\* transaction references and the checksum.
buildStatus(t, R, L, B) ==
    LET lastBuyTs == IF hasRound(R, "buy") THEN getLastRoundTs(R, "buy") ELSE Null
        lastRewardTs == IF hasRound(R, "reward") THEN getLastRoundTs(R, "reward") ELSE Null
        lockStatus == getLockStatus(L)
        safeMode == isSafeMode(B)
    IN  [now |-> t,
         botOnline |-> isBotOnline(B, t, 60),
         heartbeatAgeSeconds |-> getHeartbeatAge(B, t),
         safeMode |-> safeMode,
         safeModeReason |-> IF safeMode THEN B.safe_mode_reason ELSE Null,
         lastBuyTs |-> lastBuyTs,
         lastRewardTs |-> lastRewardTs,
         nextBuyTs |-> IF lastBuyTs # Null THEN lastBuyTs + BuyIntervalSeconds ELSE Null,
         nextRewardTs |-> IF lastRewardTs # Null THEN lastRewardTs + RewardIntervalSeconds
                          ELSE Null,
         buyInProgress |-> lockStatus.buyInProgress,
         rewardInProgress |-> lockStatus.rewardInProgress]

RATE_LIMIT_WINDOW_MS == 60000

RATE_LIMIT_MAX_REQUESTS == 30

\* Date.now() at the requests of one client, in milliseconds: the instants
\* around the end of a window and of the next.
RequestInstants == <<0, 60000, 60001, 180002>>

NoEntry == [count |-> 0, windowStart |-> Null]

\* rateLimitMap.get(ip) of the client, the instant, the GET requests that
\* passed the limiter at each instant of the last 60 seconds, and the status
\* of the last response.
NoLimiter ==
    [at |-> 1, entry |-> NoEntry, passed |-> [i \in DOMAIN RequestInstants |-> 0],
     status |-> 0, body |-> NoStatus]

\* checkRateLimit(ip): the entry it leaves and what it returns.
checkRateLimit(entry, nowMs) ==
    IF entry.windowStart = Null \/ nowMs - entry.windowStart > RATE_LIMIT_WINDOW_MS
    THEN [entry |-> [count |-> 1, windowStart |-> nowMs], allowed |-> TRUE]
    ELSE IF entry.count >= RATE_LIMIT_MAX_REQUESTS
    THEN [entry |-> entry, allowed |-> FALSE]
    ELSE [entry |-> [entry EXCEPT !.count = @ + 1], allowed |-> TRUE]

\* Time passes between two requests.
LimiterTick ==
    /\ limiter.at < Len(RequestInstants)
    /\ limiter' = [limiter EXCEPT
            !.at = @ + 1,
            !.passed = [i \in DOMAIN RequestInstants |->
                          IF RequestInstants[limiter.at + 1] - RequestInstants[i]
                                < RATE_LIMIT_WINDOW_MS
                          THEN limiter.passed[i] ELSE 0]]

\* The request handler of the server, for a request of the client.
Request(method, url) ==
    LET check == checkRateLimit(limiter.entry, RequestInstants[limiter.at])
    IN  limiter' =
            IF method \notin {"GET", "OPTIONS"} THEN [limiter EXCEPT !.status = 405]
            ELSE IF method = "OPTIONS" THEN [limiter EXCEPT !.status = 204]
            ELSE IF ~check.allowed THEN [limiter EXCEPT !.status = 429]
            ELSE [limiter EXCEPT
                     !.entry = check.entry,
                     !.passed[limiter.at] = @ + 1,
                     !.status = IF url = "/status" THEN 200 ELSE 404,
                     !.body = IF url = "/status"
                              THEN buildStatus(now, rounds, locks, botState) ELSE @]

\* The cleanup timer: entries older than two windows are deleted.
LimiterCleanup ==
    /\ limiter.entry.windowStart # Null
    /\ RequestInstants[limiter.at] - limiter.entry.windowStart > RATE_LIMIT_WINDOW_MS * 2
    /\ limiter' = [limiter EXCEPT !.entry = NoEntry]

-----------------------------------------------------------------------------
(* The job bodies and the network: jupiter.ts executeSwap, buys.ts,        *)
(* rewards.ts step 10 and executeTransfers                                  *)

MaxBatches == 2        \* transfer batches of one reward round
MaxBodies == 2         \* job bodies that insert a round in one behaviour

\* A signature is a pair: the serial number of the transaction it signs,
\* or the text of a dry-run sentinel.
Signature(n) == <<"tx", n>>

DryRunSignature == <<"dry-run-signature", 0>>

DryRunTransactions == <<(<<"dry-run-tx-1", 0>>), (<<"dry-run-tx-2", 0>>)>>

NoBody == [pc |-> "idle", signature |-> DryRunSignature, batches |-> 0, i |-> 0,
           signatures |-> << >>, attempted |-> << >>]

\* config.dryRun, the transactions submitted to the network (swaps and
\* transfers) and those of them that were confirmed, the bodies of the buy
\* and the reward job, txs_json of the rounds by round_id, the result the
\* last body returned, and of the last reward round result.totalDistributed
\* (written to the round as totalDistributedUi), the number of its winners
\* and the number of them whose batch was confirmed.
NoNet ==
    [dryRun |-> FALSE, serial |-> 0, swaps |-> {}, transfers |-> {}, confirmed |-> {},
     buy |-> NoBody, reward |-> NoBody, txs_json |-> << >>,
     result |-> [job |-> "none", success |-> FALSE, transactions |-> << >>],
     distributed |-> [totalDistributed |-> 0, winners |-> 0, paid |-> 0]]

\* MAX_SENDS_PER_TX; the winners of the model fill their batches.
maxSendsPerTx == 6

\* perWinnerRaw of the round, the amountRaw of executeTransfers.
amountRaw == 100

\* perWinnerRaw * BigInt(txSignatures.length > 0 ? winners.length : 0)
totalDistributed(perWinner, txSignatures, winnersLength) ==
    perWinner * (IF Len(txSignatures) > 0 THEN winnersLength ELSE 0)

\* Variant: a configuration whose dry run is never seen.
isDryRun_m(N) == FALSE

isDryRun(N) == N.dryRun

\* Variant: a batch whose signature is kept although it was not confirmed.
pushSignature_m(signatures, signature, res) ==
    IF res # "rejected" THEN Append(signatures, signature) ELSE signatures

\* executeTransfers: signatures.push(signature) follows the confirmation.
pushSignature(signatures, signature, res) ==
    IF res = "ok" THEN Append(signatures, signature) ELSE signatures

\* The body of a job returns after insertRound.
bodyReturn(N, job, R, success, transactions) ==
    [N EXCEPT ![job] = NoBody,
              !.txs_json = Append(@, transactions),
              !.result = [job |-> job, success |-> success, transactions |-> transactions]]

\* executeBuyRound steps 1-4 and getSwapQuote: the round is skipped, or a
\* quote fails, before executeSwap is reached.
BodyBuyStart(res) ==
    /\ net.buy.pc = "idle"
    /\ Cardinality(rounds) < MaxBodies
    /\ IF res = "ok"
       THEN net' = [net EXCEPT !.buy.pc = "swap"] /\ UNCHANGED rounds
       ELSE /\ net' = [net EXCEPT !.result = [job |-> "buy", success |-> FALSE,
                                                transactions |-> << >>]]
            /\ UNCHANGED rounds

\* executeSwap: the synthetic result of a dry run, or the swap transaction
\* is built, signed and sent.
BodyExecuteSwap(res) ==
    /\ net.buy.pc = "swap"
    /\ IF isDryRun(net)
       THEN /\ net' = bodyReturn(net, "buy", rounds, TRUE, <<DryRunSignature>>)
            /\ rounds' = insertRound(rounds, buyRound(rounds, now, TRUE))
       ELSE IF res = "ok"
       THEN /\ net' = [net EXCEPT !.serial = @ + 1,
                                  !.swaps = @ \cup {Signature(net.serial + 1)},
                                  !.buy.signature = Signature(net.serial + 1),
                                  !.buy.pc = "confirm"]
            /\ UNCHANGED rounds
       ELSE /\ net' = bodyReturn(net, "buy", rounds, FALSE, << >>)
            /\ rounds' = insertRound(rounds, buyRound(rounds, now, FALSE))

\* executeSwap: confirmTransaction, and the round row of executeBuyRound.
BodyConfirmSwap(res) ==
    /\ net.buy.pc = "confirm"
    /\ net' = [bodyReturn(net, "buy", rounds, res = "ok",
                          IF res = "ok" THEN <<net.buy.signature>> ELSE << >>)
                  EXCEPT !.confirmed = IF res = "ok" THEN @ \cup {net.buy.signature} ELSE @]
    /\ rounds' = insertRound(rounds, buyRound(rounds, now, res = "ok"))

\* executeRewardRound steps 1-9 and, in a dry run, step 10 to the end;
\* batches is the number of batches the winners make (none: the round
\* returns without a row).
BodyRewardStart(batches) ==
    /\ net.reward.pc = "idle"
    /\ Cardinality(rounds) < MaxBodies
    /\ IF batches = 0
       THEN /\ net' = [net EXCEPT !.result = [job |-> "reward", success |-> FALSE,
                                                transactions |-> << >>]]
            /\ UNCHANGED rounds
       ELSE IF isDryRun(net)
       THEN /\ net' = [bodyReturn(net, "reward", rounds, TRUE, DryRunTransactions)
                          EXCEPT !.distributed =
                            [totalDistributed |-> amountRaw * (batches * maxSendsPerTx),
                             winners |-> batches * maxSendsPerTx, paid |-> 0]]
            /\ rounds' = insertRound(rounds, rewardRound(rounds, now, TRUE))
       ELSE /\ net' = [net EXCEPT !.reward.pc = "transfer", !.reward.batches = batches]
            /\ UNCHANGED rounds

\* executeTransfers, one batch: sendAndConfirmTransaction confirms it,
\* fails to send it, or sends it and fails to confirm it; after the last
\* batch, the rest of step 10 and steps 11-13.
BodyTransferBatch(res) ==
    /\ net.reward.pc = "transfer"
    /\ LET signature == Signature(net.serial + 1)
           signatures == pushSignature(net.reward.signatures, signature, res)
           sent == [net EXCEPT
                      !.serial = @ + 1,
                      !.transfers = IF res = "rejected" THEN @ ELSE @ \cup {signature},
                      !.confirmed = IF res = "ok" THEN @ \cup {signature} ELSE @,
                      !.reward.i = @ + 1,
                      !.reward.signatures = signatures,
                      !.reward.attempted = Append(@, signature)]
       IN  IF net.reward.i + 1 < net.reward.batches
           THEN net' = sent /\ UNCHANGED rounds
           ELSE /\ net' = [bodyReturn(sent, "reward", rounds, signatures # << >>,
                                      signatures)
                              EXCEPT !.distributed =
                                [totalDistributed |->
                                    totalDistributed(amountRaw, signatures,
                                                     net.reward.batches * maxSendsPerTx),
                                 winners |-> net.reward.batches * maxSendsPerTx,
                                 paid |-> Len(signatures) * maxSendsPerTx]]
                /\ rounds' = insertRound(rounds, rewardRound(rounds, now, signatures # << >>))

-----------------------------------------------------------------------------
(* Graceful shutdown: index.ts gracefulShutdown and the cron callbacks *)

ShutdownMaxWaitMs == 30000

ShutdownPollMs == 1000

MaxSignals == 2

\* isShuttingDown, scanJobRunning, the heartbeat timer and the status
\* server, the callbacks of the buy and the reward trigger, the shutdown
\* sequence (Date.now() - startTime in waitedMs), and counts of the signals
\* received, the sequences started and the triggers that found the flag set.
NoShutdown ==
    [isShuttingDown |-> FALSE, scanJobRunning |-> FALSE, heartbeat |-> TRUE,
     server |-> TRUE, callback |-> [job \in Jobs |-> "idle"], pc |-> "running",
     waitedMs |-> 0, dbOpen |-> TRUE, signals |-> 0, sequences |-> 0, ignored |-> 0]

\* Variant: a shutdown that never waits.
keepsWaiting_m(S) == FALSE

\* while (scanJobRunning && (Date.now() - startTime < maxWait))
keepsWaiting(S) == S.scanJobRunning /\ S.waitedMs < ShutdownMaxWaitMs

\* closeDb() and process.exit(0) at the end of the loop.
closeAndExit(S) == [S EXCEPT !.pc = "exited", !.dbOpen = FALSE]

Stopping(S) == IF S.ignored = 0 THEN [S EXCEPT !.ignored = 1] ELSE S

\* SIGINT or SIGTERM: gracefulShutdown up to its first await, or to the end.
Signal ==
    /\ shutdown.pc # "exited"
    /\ shutdown.signals < MaxSignals
    /\ shutdown' =
          IF shutdown.isShuttingDown
          THEN [shutdown EXCEPT !.signals = @ + 1]
          ELSE LET started == [shutdown EXCEPT !.signals = @ + 1, !.sequences = @ + 1,
                                               !.isShuttingDown = TRUE,
                                               !.heartbeat = FALSE, !.server = FALSE,
                                               !.waitedMs = 0]
               IN  IF keepsWaiting(started) THEN [started EXCEPT !.pc = "waiting"]
                   ELSE closeAndExit(started)

\* The one-second timer of the loop fires, on time or late.
ShutdownPoll(lateMs) ==
    /\ shutdown.pc = "waiting"
    /\ LET woken == [shutdown EXCEPT !.waitedMs = @ + ShutdownPollMs + lateMs]
       IN  shutdown' = IF keepsWaiting(woken) THEN woken ELSE closeAndExit(woken)

\* The buy or the reward trigger fires: the callback up to its balance check.
JobTrigger(job) ==
    /\ shutdown.pc # "exited"
    /\ shutdown.callback[job] = "idle"
    /\ shutdown' = IF shutdown.isShuttingDown THEN Stopping(shutdown)
                   ELSE [shutdown EXCEPT !.callback[job] = "precheck"]

\* The position of a callback after its next await: the balance check
\* returns and the job is executed (a reward job begins with
\* incrementalScan, step 1 of executeRewardRound), or the job ends.
callbackNext(job, pc) ==
    IF pc = "precheck" THEN (IF job = "reward" THEN "scan" ELSE "job")
    ELSE IF pc = "scan" THEN "job"
    ELSE "idle"

JobProceed(job) ==
    /\ shutdown.pc # "exited"
    /\ shutdown.callback[job] # "idle"
    /\ shutdown' = [shutdown EXCEPT !.callback[job] = callbackNext(job, @)]

\* The scans in progress in the scheduler process.
scansInProgress(S) ==
    (IF S.scanJobRunning THEN 1 ELSE 0) + (IF S.callback["reward"] = "scan" THEN 1 ELSE 0)

\* The scan trigger fires.
ScanTrigger ==
    /\ shutdown.pc # "exited"
    /\ ~shutdown.scanJobRunning
    /\ shutdown' = IF shutdown.isShuttingDown THEN Stopping(shutdown)
                   ELSE [shutdown EXCEPT !.scanJobRunning = TRUE]

\* The scan returns (finally).
ScanReturn ==
    /\ shutdown.pc # "exited"
    /\ shutdown.scanJobRunning
    /\ shutdown' = [shutdown EXCEPT !.scanJobRunning = FALSE]

-----------------------------------------------------------------------------
(* Specifications *)

InitIo == scan = NoScan /\ limiter = NoLimiter /\ net = NoNet /\ shutdown = NoShutdown

\* BuyRoundResult / RewardRoundResult: the round's timestamp and the error
\* the body caught, if any.
NoResult == [job |-> "none", ts |-> 0, error |-> "none"]

InitStore ==
    /\ now = 0
    /\ alive = [p \in Procs |-> FALSE]
    /\ run = [r \in Runs |-> IdleRun]
    /\ locks = [lt \in LockTypes |-> NoLock]
    /\ botState = NoBotState
    /\ rounds = {}
    /\ orphaned = {}
    /\ cleanedLive = {}
    /\ buy503 = 0
    /\ lastResult = NoResult
    /\ holders = NoHolders
    /\ tasks = NoTasks
    /\ InitIo

Init == InitStore /\ calc = NoCalc /\ reward = NoReward /\ lottery = NoLottery

CallResults == {"ok", "503", "error"}

Untracked == UNCHANGED <<buy503, calc, lastResult, reward, lottery, holders, tasks, ioVars>>

\* The bot as deployed: the scheduler process and the one-shot modes.
Next ==
    \/ Tick /\ Untracked
    \/ SchedStart /\ Untracked
    \/ Crash("sched") /\ Untracked
    \/ \E job \in Jobs : CliStart(job) /\ Untracked
    \/ \E r \in Runs : \E res \in {"ok", "low", "error"} : PrecheckDone(r, res) /\ Untracked
    \/ \E r \in Runs : \E res \in CallResults \cup {"below_min"} :
          BuyBalance(r, res) /\ Untracked
    \/ \E r \in Runs : \E res \in CallResults : BuySwap(r, res) /\ Untracked
    \/ \E r \in Runs : \E res \in CallResults : BuyConfirm(r, res) /\ Untracked
    \/ \E r \in Runs : \E res \in CallResults \cup {"none"} :
          RewardPrepare(r, res) /\ Untracked
    \/ \E r \in Runs : \E res \in CallResults : RewardTransfer(r, res) /\ Untracked

Spec == Init /\ [][Next]_vars

\* History: the buy executions in a row that ended with a failing "503"
\* call; any other execution that completes ends the row.
Buy503After(res) == IF res = "503" THEN Min(buy503 + 1, MaxRpcErrorsBeforePause) ELSE 0

\* History: the result object a job body returns when the step ends its run
\* (result.error, or swapResult.error of a buy).
Returned(r, res) ==
    lastResult' = IF run'[r].pc = "idle"
                  THEN [job |-> run[r].job, ts |-> run[r].start,
                        error |-> IF res \in {"503", "error"} THEN res ELSE "none"]
                  ELSE lastResult

Tracked(r, res, n) ==
    buy503' = n /\ Returned(r, res) /\ UNCHANGED <<calc, reward, lottery, holders, tasks, ioVars>>

\* The scheduler process alone (continuous mode), with the history of its
\* job executions.
NextScheduler ==
    \/ Tick /\ Untracked
    \/ SchedStart /\ Untracked
    \/ Crash("sched") /\ Untracked
    \/ \E r \in Runs : \E res \in {"ok", "low", "error"} : PrecheckDone(r, res) /\ Untracked
    \/ \E r \in Runs : \E res \in CallResults \cup {"below_min"} :
          BuyBalance(r, res)
              /\ Tracked(r, res, IF res = "ok" THEN buy503 ELSE Buy503After(res))
    \/ \E r \in Runs : \E res \in CallResults :
          BuySwap(r, res)
              /\ Tracked(r, res, IF res = "ok" THEN buy503 ELSE Buy503After(res))
    \/ \E r \in Runs : \E res \in CallResults :
          BuyConfirm(r, res) /\ Tracked(r, res, Buy503After(res))
    \/ \E r \in Runs : \E res \in CallResults \cup {"none"} :
          RewardPrepare(r, res) /\ Tracked(r, res, IF res = "ok" THEN buy503 ELSE 0)
    \/ \E r \in Runs : \E res \in CallResults : RewardTransfer(r, res) /\ Tracked(r, res, 0)

SpecScheduler == Init /\ [][NextScheduler]_vars

\* The engine on its own, under job bodies that may throw, in a scheduler
\* process that writes its heartbeat.
NextEngine ==
    \/ ClockTick /\ Untracked
    \/ SchedStart /\ Untracked
    \/ Crash("sched") /\ Untracked
    \/ \E r \in Runs : \E job \in Jobs : Invoke(r, job) /\ Untracked
    \/ \E r \in Runs : \E out \in {"return"} \cup Errors : FnFinish(r, out) /\ Untracked
    \/ CliExitSafeMode /\ Untracked
    \/ Heartbeat /\ Untracked

SpecEngine == Init /\ [][NextEngine]_vars

\* The amounts of a buy round, for every balance and configuration.
InitAmounts ==
    /\ InitStore
    /\ calc \in [stage : {"input"}, lamports : Balances, config : Configs,
                 rounding : Roundings, result : {NoAmounts}]
    /\ reward = NoReward
    /\ lottery = NoLottery

NextAmounts == ComputeBuy

SpecAmounts == InitAmounts /\ [][NextAmounts]_vars

\* The amounts of a reward round, over treasury balances, percentages,
\* numbers of winners, batch sizes and batch outcomes.
InitRewardAmounts ==
    /\ InitStore
    /\ calc = NoCalc
    /\ \E t \in TreasuryBalances, e \in EnvRewardBps, m \in EnvMaxBps,
          n \in 1 .. MaxWinners, b \in 1 .. 2, d \in BOOLEAN :
          reward = [NoReward EXCEPT !.stage = "input", !.treasuryRaw = t,
                                    !.envRewardBps = e, !.envMaxBps = m, !.nWinners = n,
                                    !.maxSendsPerTx = b, !.dryRun = d]
    /\ lottery = NoLottery

NextRewardAmounts ==
    \/ RewardAmounts
    \/ \E res \in {"ok", "error"} : TransferBatch(res)

SpecRewardAmounts == InitRewardAmounts /\ [][NextRewardAmounts]_vars

\* The lottery over eligible lists, counts and seed inputs.
InitLottery ==
    /\ InitStore
    /\ calc = NoCalc
    /\ reward = NoReward
    /\ \E e \in EligibleLists, c \in 0 .. MaxCount, t \in {60, 1000} :
          lottery = [NoLottery EXCEPT !.stage = "input", !.eligible = e, !.count = c,
                                      !.timestamp = t]

NextLottery ==
    \/ CreateLotteryContext
    \/ SelectWinners
    \/ RecordLottery

SpecLottery == InitLottery /\ [][NextLottery]_vars

HoldersIdle == UNCHANGED <<now, jobVars, calc, reward, lottery, ioVars>>

\* Rows a holder can have at the start: discovered, its age known or not,
\* with or without a detected buy, blacklisted by the operator or not, and
\* either never refreshed or refreshed a minute ago, its continuity then one
\* or two minutes old, with a reward round behind it in the latter case.
HolderRows ==
    {NoHolder} \cup
    {[NoHolder EXCEPT !.present = TRUE, !.first_seen_ts = f, !.is_blacklisted = bl,
                      !.cumulative_buy_sol = b[1],
                      !.cumulative_buy_sol_low_confidence = b[2],
                      !.last_balance_raw = r[1], !.last_balance_check_ts = r[2],
                      !.continuity_start_ts = r[3], !.streak_rounds = r[4],
                      !.twb_score = r[4] * r[1] * RewardIntervalSeconds] :
        f \in BlockTimes \cup {Null}, bl \in BOOLEAN,
        b \in {<<0, 0>>, <<1, 0>>, <<0, 1>>},
        r \in {<<Null, Null, Null, 0>>, <<0, -60, -60, 0>>, <<500, -60, -60, 0>>,
               <<500, -60, -120, 1>>}}

InitTable(stage) ==
    /\ now = 0
    /\ alive = [p \in Procs |-> FALSE]
    /\ run = [r \in Runs |-> IdleRun]
    /\ locks = [lt \in LockTypes |-> NoLock]
    /\ botState = NoBotState
    /\ rounds = {}
    /\ orphaned = {}
    /\ cleanedLive = {}
    /\ buy503 = 0
    /\ lastResult = NoResult
    /\ calc = NoCalc
    /\ reward = NoReward
    /\ lottery = NoLottery
    /\ InitIo
    /\ holders \in [HolderWallets -> HolderRows]
    /\ tasks = [NoTasks EXCEPT
            !.refresh.stage = stage,
            !.detected = [w \in HolderWallets |->
                            [high |-> holders[w].cumulative_buy_sol,
                             low |-> holders[w].cumulative_buy_sol_low_confidence]]]

\* The eligible holders of a reward round, after its refresh, with the scan
\* of the scheduler detecting buys.
InitEligibility == InitTable("done")

NextEligibility ==
    \/ ClockTick /\ now < TickSeconds
                 /\ UNCHANGED <<buy503, lastResult, calc, reward, lottery, holders, tasks,
                                ioVars>>
    \/ \E w \in HolderWallets, c \in Confidences : ScanBuy(w, c) /\ HoldersIdle
    \/ RewardDraw /\ HoldersIdle

SpecEligibility == InitEligibility /\ [][NextEligibility]_vars

\* The balance refresh of a reward round.
InitRefresh == InitTable("idle")

NextRefresh ==
    \/ RefreshStart /\ HoldersIdle
    \/ \E w \in HolderWallets, b \in TokenBalances : RefreshHolder(w, b) /\ HoldersIdle

SpecRefresh == InitRefresh /\ [][NextRefresh]_vars

\* Holder discovery and wallet ages, from an empty table, under the scans of
\* the scheduler and of a one-shot process.
InitAge ==
    /\ InitStore
    /\ calc = NoCalc
    /\ reward = NoReward
    /\ lottery = NoLottery

NextAge ==
    \/ \E p \in Procs, w \in HolderWallets : ScanCheck(p, w) /\ HoldersIdle
    \/ \E p \in Procs, w \in HolderWallets : ScanInsert(p, w) /\ HoldersIdle
    \/ \E p \in Procs, w \in HolderWallets : AgeStart(p, w) /\ HoldersIdle
    \/ \E p \in Procs, w \in HolderWallets, t \in BlockTimes \cup {Null} :
          AgeFinish(p, w, t) /\ HoldersIdle
    \/ \E w \in HolderWallets : ScanBuy(w, "high") /\ HoldersIdle
    \/ RefreshStart /\ HoldersIdle
    \/ \E w \in HolderWallets, b \in {0, 500} : RefreshHolder(w, b) /\ HoldersIdle

SpecAge == InitAge /\ [][NextAge]_vars

ScansIdle == UNCHANGED <<now, jobVars, calc, reward, lottery, tasks, limiter, net, shutdown>>

\* The scans of the scheduler, of its reward job and of a bootstrap run,
\* over one store.
NextScan ==
    \/ LedgerAppend /\ ScansIdle
    \/ \E p \in Scanners : ScanStart(p) /\ ScansIdle
    \/ \E p \in Scanners : ScanPage(p) /\ ScansIdle
    \/ \E p \in Scanners : ScanFail(p) /\ ScansIdle

SpecScan == InitAge /\ [][NextScan]_vars

LimiterIdle ==
    UNCHANGED <<now, jobVars, calc, reward, lottery, holders, tasks, scan, net, shutdown>>

\* The status server under the requests of one client.
NextLimiter ==
    \/ LimiterTick /\ LimiterIdle
    \/ \E method \in {"GET", "OPTIONS", "POST"}, url \in {"/status", "/"} :
          Request(method, url) /\ LimiterIdle
    \/ LimiterCleanup /\ LimiterIdle

SpecLimiter == InitAge /\ [][NextLimiter]_vars

\* Rounds, locks and bot state as the jobs leave them two or three minutes
\* after the start of the clock.
StatusRounds ==
    {[round_id |-> 1, type |-> "buy", ts |-> 0, txs |-> 1, success |-> TRUE],
     [round_id |-> 2, type |-> "buy", ts |-> 60, txs |-> 0, success |-> FALSE],
     [round_id |-> 3, type |-> "reward", ts |-> 60, txs |-> 1, success |-> TRUE],
     [round_id |-> 4, type |-> "reward", ts |-> 120, txs |-> 1, success |-> TRUE]}

InitStatus ==
    /\ now \in {120, 180}
    /\ alive = [p \in Procs |-> FALSE]
    /\ run = [r \in Runs |-> IdleRun]
    /\ locks \in [LockTypes -> {NoLock, [held |-> TRUE, acquired_ts |-> 60, pid |-> "sched"]}]
    /\ \E heartbeat \in {Null, 60, 120}, safe \in BOOLEAN :
          botState = [NoBotState EXCEPT !.heartbeat_ts = heartbeat, !.safe_mode = safe,
                                        !.safe_mode_reason = IF safe THEN 3 ELSE 0]
    /\ rounds \in SUBSET StatusRounds
    /\ orphaned = {}
    /\ cleanedLive = {}
    /\ buy503 = 0
    /\ lastResult = NoResult
    /\ holders = NoHolders
    /\ tasks = NoTasks
    /\ InitIo
    /\ calc = NoCalc
    /\ reward = NoReward
    /\ lottery = NoLottery

\* The job bodies and the network, in a live run and in a dry run.
InitNet ==
    /\ now = 0
    /\ alive = [p \in Procs |-> FALSE]
    /\ run = [r \in Runs |-> IdleRun]
    /\ locks = [lt \in LockTypes |-> NoLock]
    /\ botState = NoBotState
    /\ rounds = {}
    /\ orphaned = {}
    /\ cleanedLive = {}
    /\ buy503 = 0
    /\ lastResult = NoResult
    /\ holders = NoHolders
    /\ tasks = NoTasks
    /\ scan = NoScan
    /\ limiter = NoLimiter
    /\ shutdown = NoShutdown
    /\ \E d \in BOOLEAN : net = [NoNet EXCEPT !.dryRun = d]
    /\ calc = NoCalc
    /\ reward = NoReward
    /\ lottery = NoLottery

NetIdle ==
    UNCHANGED <<now, alive, run, locks, botState, orphaned, cleanedLive, buy503, lastResult,
                calc, reward, lottery, holders, tasks, scan, limiter, shutdown>>

NextNet ==
    \/ \E res \in {"ok", "skip"} : BodyBuyStart(res) /\ NetIdle
    \/ \E res \in {"ok", "error"} : BodyExecuteSwap(res) /\ NetIdle
    \/ \E res \in {"ok", "error"} : BodyConfirmSwap(res) /\ NetIdle
    \/ \E n \in 0 .. MaxBatches : BodyRewardStart(n) /\ NetIdle
    \/ \E res \in {"ok", "rejected", "unconfirmed"} : BodyTransferBatch(res) /\ NetIdle

SpecNet == InitNet /\ [][NextNet]_vars

\* The status server answering one client, over every such store.
NextStatus ==
    \E method \in {"GET", "OPTIONS"}, url \in {"/status", "/"} :
        Request(method, url) /\ LimiterIdle

SpecStatus == InitStatus /\ [][NextStatus]_vars

ShutdownIdle ==
    UNCHANGED <<now, jobVars, calc, reward, lottery, holders, tasks, scan, limiter, net>>

\* The scheduler process under signals, with its triggers firing.
NextShutdown ==
    \/ Signal /\ ShutdownIdle
    \/ \E lateMs \in {0, 500} : ShutdownPoll(lateMs) /\ ShutdownIdle
    \/ \E job \in Jobs : JobTrigger(job) /\ ShutdownIdle
    \/ \E job \in Jobs : JobProceed(job) /\ ShutdownIdle
    \/ ScanTrigger /\ ShutdownIdle
    \/ ScanReturn /\ ShutdownIdle

SpecShutdown == InitAge /\ [][NextShutdown]_vars

\* The engine in a scheduler process that keeps running: the clock advances,
\* every job type keeps being triggered (node-cron fires each expression
\* again and again) and a job body that has started returns.
FairEngine ==
    /\ WF_vars(ClockTick /\ Untracked)
    /\ \A job \in Jobs : WF_vars(\E r \in Runs : Invoke(r, job) /\ Untracked)
    /\ \A r \in Runs : WF_vars(FnFinish(r, "return") /\ Untracked)

SpecEngineFair == Init /\ [][NextEngine]_vars /\ FairEngine

\* Scans that follow one another in each process, with age computations
\* that may fail.
NextAgeRetry ==
    \/ \E p \in Procs, w \in HolderWallets : ScanCheck(p, w) /\ HoldersIdle
    \/ \E p \in Procs, w \in HolderWallets : ScanInsert(p, w) /\ HoldersIdle
    \/ \E p \in Procs, w \in HolderWallets : ScanSight(p, w) /\ HoldersIdle
    \/ \E p \in Procs, w \in HolderWallets : AgeStart(p, w) /\ HoldersIdle
    \/ \E p \in Procs, w \in HolderWallets, t \in BlockTimes :
          AgeFinish(p, w, t) /\ HoldersIdle
    \/ \E p \in Procs, w \in HolderWallets : AgeFail(p, w) /\ HoldersIdle
    \/ \E p \in Procs, w \in HolderWallets : ScanAgain(p, w) /\ HoldersIdle

\* Every wallet keeps appearing in the scans of every process, and from some
\* point on the adapter answers: a step of a scan or of an age computation
\* that can be taken is taken, and an age computation that is under way
\* again and again does not fail every time.
FairAgeRetry ==
    \A p \in Procs, w \in HolderWallets :
        /\ WF_vars(ScanCheck(p, w) /\ HoldersIdle)
        /\ WF_vars(ScanInsert(p, w) /\ HoldersIdle)
        /\ WF_vars(ScanSight(p, w) /\ HoldersIdle)
        /\ WF_vars(AgeStart(p, w) /\ HoldersIdle)
        /\ SF_vars(\E t \in BlockTimes : AgeFinish(p, w, t) /\ HoldersIdle)
        /\ WF_vars(ScanAgain(p, w) /\ HoldersIdle)

SpecAgeRetry == InitAge /\ [][NextAgeRetry]_vars /\ FairAgeRetry

\* The balance refresh of a reward round, with the answers of the RPC node.
NextRefreshFetch ==
    \/ RefreshStart /\ HoldersIdle
    \/ \E w \in HolderWallets, account \in Accounts : RefreshFetch(w, account) /\ HoldersIdle

SpecRefreshFetch == InitRefresh /\ [][NextRefreshFetch]_vars

\* The scans over a ledger that carries malformed transactions.
NextScanMalformed ==
    \/ LedgerAppend /\ ScansIdle
    \/ LedgerAppendMalformed /\ ScansIdle
    \/ \E p \in Scanners : ScanStart(p) /\ ScansIdle
    \/ \E p \in Scanners : ScanPage(p) /\ ScansIdle
    \/ \E p \in Scanners : ScanFail(p) /\ ScansIdle

SpecScanMalformed == InitAge /\ [][NextScanMalformed]_vars

PostRoundIdle ==
    UNCHANGED <<now, alive, run, locks, botState, orphaned, cleanedLive, buy503, lastResult,
                calc, reward, lottery, ioVars>>

\* A reward round from its eligible holders to its round row, with the scan
\* of the scheduler detecting buys meanwhile.
NextPostRound ==
    \/ RewardSelect /\ PostRoundIdle
    \/ \E res \in {"ok", "failed"} : RewardSettle(res) /\ PostRoundIdle
    \/ \E w \in HolderWallets : ScanBuy(w, "high") /\ HoldersIdle

SpecPostRound == InitEligibility /\ [][NextPostRound]_vars

\* Holders that were refreshed a minute before the start.
InitJobs ==
    /\ InitTable("idle")
    /\ \A w \in HolderWallets :
          /\ holders[w].present => holders[w].last_balance_raw = 500
          /\ holders[w].first_seen_ts = Null
          /\ ~holders[w].is_blacklisted
          /\ holders[w].cumulative_buy_sol = 0
          /\ holders[w].cumulative_buy_sol_low_confidence = 0

JobsIdle ==
    UNCHANGED <<now, alive, run, botState, rounds, orphaned, cleanedLive, buy503, lastResult,
                calc, reward, lottery, ioVars>>

\* The balance refreshes of the reward jobs of the scheduler and of one-shot
\* processes, under the reward_job lock, as time passes.
NextJobs ==
    \/ ClockTick /\ Untracked
    \/ \E p \in Procs : JobRefreshStart(p) /\ JobsIdle
    \/ \E p \in Procs, w \in HolderWallets, b \in {400, 500} :
          JobRefreshHolder(p, w, [error |-> "none", amount |-> b]) /\ JobsIdle
    \/ \E p \in Procs : JobRefreshEnd(p) /\ JobsIdle

SpecJobs == InitJobs /\ [][NextJobs]_vars

\* The periodic scan of the scheduler (discovery, ages, buys) interleaved
\* with the balance refresh of its reward job, over a table of holders
\* with no buy recorded yet.
InitInterleave ==
    /\ InitTable("idle")
    /\ \A w \in HolderWallets :
          /\ holders[w].cumulative_buy_sol = 0
          /\ holders[w].cumulative_buy_sol_low_confidence = 0
          /\ holders[w].first_seen_ts # -86340
          /\ holders[w].last_balance_raw # 0
          /\ holders[w].streak_rounds = 0 => holders[w].last_balance_raw = Null
          /\ holders[w].is_blacklisted =>
                holders[w].first_seen_ts # Null /\ holders[w].streak_rounds = 1

NextInterleave ==
    \/ \E w \in HolderWallets : ScanCheck("sched", w) /\ HoldersIdle
    \/ \E w \in HolderWallets : ScanInsert("sched", w) /\ HoldersIdle
    \/ \E w \in HolderWallets : AgeStart("sched", w) /\ HoldersIdle
    \/ \E w \in HolderWallets, t \in BlockTimes \cup {Null} :
          AgeFinish("sched", w, t) /\ HoldersIdle
    \/ \E w \in HolderWallets, c \in Confidences : ScanBuy(w, c) /\ HoldersIdle
    \/ RefreshStart /\ HoldersIdle
    \/ \E w \in HolderWallets, account \in Accounts :
          RefreshFetch(w, account) /\ HoldersIdle

SpecInterleave == InitInterleave /\ [][NextInterleave]_vars

\* The scheduler process over a clock in seconds, its treasury balances
\* sufficient at every pre-check.
NextCadence ==
    \/ SecondPasses /\ Untracked
    \/ MinuteBoundary /\ Untracked
    \/ SchedStart /\ Untracked
    \/ \E r \in Runs : PrecheckDone(r, "ok") /\ Untracked
    \/ \E r \in Runs : \E res \in {"ok", "below_min"} : BuyBalance(r, res) /\ Untracked
    \/ \E r \in Runs : \E res \in {"ok", "error"} : BuySwap(r, res) /\ Untracked
    \/ \E r \in Runs : \E res \in {"ok", "error"} : BuyConfirm(r, res) /\ Untracked
    \/ \E r \in Runs : \E res \in {"ok", "none"} : RewardPrepare(r, res) /\ Untracked
    \/ \E r \in Runs : \E res \in {"ok", "error"} : RewardTransfer(r, res) /\ Untracked

SpecCadence == Init /\ [][NextCadence]_vars

-----------------------------------------------------------------------------
(* Properties *)

Abs(n) == IF n < 0 THEN -n ELSE n

\* C1 as stated: for each lock type, at most one run is in its job body at
\* any time, whatever the processes that share the store.
C1_SingleFlight == \A lt \in LockTypes : Cardinality(BodiesOf(lt)) <= 1

\* C1: for each lock type whose row no process start has deleted (stale
\* cleanup) under a run that is still in its body, at most one run is in its
\* job body, and while one is, every other call of the engine for that lock
\* type is skipped.
C1_SingleFlightUnlessCleaned ==
    \A lt \in LockTypes :
        lt \notin cleanedLive =>
            /\ Cardinality(BodiesOf(lt)) <= 1
            /\ BodiesOf(lt) # {} => engineGate(botState, locks, lt) = "SkippedLocked"

\* A job body is running under its lock while a run of the other process is
\* about to call the engine for the same lock type.
C1_Witness ==
    \E lt \in LockTypes : \E r, q \in Runs :
        /\ lt \notin cleanedLive
        /\ r \in BodiesOf(lt)
        /\ ProcOf(q) # ProcOf(r)
        /\ run[q].pc = "precheck"
        /\ LockTypeOf(run[q].job) = lt

C3_SafeModeLatched ==
    [][/\ (isSafeMode(botState) /\ ~isSafeMode(botState'))
            => (botState' = exitSafeMode(botState) /\ UNCHANGED <<now, alive, run, locks>>)
       /\ (~isSafeMode(botState) /\ isSafeMode(botState'))
            => /\ \E r \in Runs : InBody(r) /\ run'[r].pc = "idle" /\ alive'[ProcOf(r)]
               /\ getRpcErrorCount(botState') = getRpcErrorCount(botState) + 1
               /\ getRpcErrorCount(botState') >= MaxRpcErrorsBeforePause]_vars

\* Safe mode is on after a later successful run has reset the counter.
C3_Witness == isSafeMode(botState) /\ getRpcErrorCount(botState) = 0

\* C4 as stated: after MaxRpcErrorsBeforePause consecutive buy executions
\* with a failing "503" call, safe mode is on.
C4_SafeModeTrip == buy503 >= MaxRpcErrorsBeforePause => isSafeMode(botState)

\* C5: while safe mode is on the gate skips every call of the engine: no
\* step acquires a lock or starts a job body; and once exitSafeMode has run,
\* the gate lets the next call through to the lock.
C5_SafeModeGate ==
    [][/\ isSafeMode(botState)
            => /\ \A lt \in LockTypes : engineGate(botState, locks, lt) = "SkippedSafeMode"
               /\ \A lt \in LockTypes : isLockHeld(locks', lt) => locks'[lt] = locks[lt]
               /\ \A r \in Runs : run'[r].pc \in BodyPcs => run'[r] = run[r]
       /\ (isSafeMode(botState) /\ botState' = exitSafeMode(botState))
            => \A lt \in LockTypes :
                  engineGate(botState', locks', lt) =
                      IF canAcquireLock(locks', lt) THEN "Run" ELSE "SkippedLocked"]_vars

\* Safe mode is on in a running scheduler with no run in flight and both
\* locks free.
C5_Witness ==
    /\ isSafeMode(botState)
    /\ alive["sched"]
    /\ \A r \in Runs : ~Active(r)
    /\ \A lt \in LockTypes : canAcquireLock(locks, lt)

\* C6 as stated: no job body is still running after its deadline
\* (start + timeout).
C6_NoBodyPastDeadline ==
    \A r \in Runs : InBody(r) => now * 1000 <= run[r].start * 1000 + TimeoutMsOf(run[r].job)

InProgress(lt) ==
    IF lt = "buy_job" THEN getLockStatus(locks).buyInProgress
    ELSE getLockStatus(locks).rewardInProgress

C8_NoDoubleExecution ==
    /\ \A r \in Runs : \A x \in RoundsOf(rounds, "buy") :
          (run[r].pc = "confirm" /\ x.success)
              => Abs(run[r].start - x.ts) >= BuyIntervalSeconds
    /\ \A job \in Jobs : \A x, y \in RoundsOf(rounds, job) :
          (x # y /\ x.success /\ y.success) => Abs(x.ts - y.ts) >= IntervalOf(job)

C11_JobErrorRecorded ==
    lastResult.error = "error" =>
        \E x \in RoundsOf(rounds, lastResult.job) : x.ts = lastResult.ts /\ ~x.success

\* C12: once step 4 of a reward round has run, distributeRaw is the floor of
\* treasuryBalance * min(rewardPctBps, maxRewardPctBps) / 10000, and neither
\* the amount scheduled (perWinner for each winner) nor the amount of the
\* transfers attempted exceeds the maxRewardPctBps share of the treasury
\* balance read in the round.
C12_RewardCap ==
    reward.stage \in {"transfer", "done"} /\ reward.treasuryRaw > 0 =>
        LET share == reward.treasuryRaw * Min(reward.envRewardBps, reward.envMaxBps)
        IN  /\ reward.distributeRaw * BpsDenominator <= share
            /\ share < (reward.distributeRaw + 1) * BpsDenominator
            /\ reward.perWinnerRaw * reward.nWinners * BpsDenominator
                   <= reward.treasuryRaw * reward.envMaxBps
            /\ reward.attempted * BpsDenominator <= reward.treasuryRaw * reward.envMaxBps
            /\ reward.totalDistributed * BpsDenominator
                   <= reward.treasuryRaw * reward.envMaxBps

\* A round whose configured percentage was above the cap has attempted all
\* its transfers, and the share was not a whole number of raw units.
C12_Witness ==
    /\ reward.stage = "done"
    /\ reward.envRewardBps > reward.envMaxBps
    /\ reward.attempted > 0
    /\ reward.attempted = reward.perWinnerRaw * reward.nWinners
    /\ reward.distributeRaw * BpsDenominator < reward.treasuryRaw * reward.envMaxBps

\* C13: with at least one winner, perWinner * |winners| <= distributeRaw, the
\* residual distributeRaw - perWinner * |winners| is below |winners|, and the
\* transfers attempted over all batches (one of perWinner per winner) sum to
\* at most distributeRaw.
C13_DistributionConservation ==
    reward.stage \in {"transfer", "done"} /\ reward.treasuryRaw > 0 =>
        /\ reward.nWinners >= 1
        /\ reward.perWinnerRaw * reward.nWinners <= reward.distributeRaw
        /\ reward.distributeRaw - reward.perWinnerRaw * reward.nWinners < reward.nWinners
        /\ reward.attempted <= reward.distributeRaw
        /\ reward.attempted = reward.perWinnerRaw * Min(reward.i, reward.nWinners)

\* A round of several batches, one of them failed, has attempted a transfer
\* for every winner and left a residual.
C13_Witness ==
    /\ reward.stage = "done"
    /\ ~reward.dryRun
    /\ reward.nWinners > reward.maxSendsPerTx
    /\ reward.perWinnerRaw > 0
    /\ reward.attempted = reward.perWinnerRaw * reward.nWinners
    /\ reward.sent < reward.attempted
    /\ reward.distributeRaw > reward.attempted

\* The wallets of a list of holders.
WalletsOf(list) == {list[k].wallet : k \in 1 .. Len(list)}

\* C14: the list selectWinners returns repeats no holder and takes every
\* element from the eligible input; its length is min(count, |eligible|) when
\* all weights are positive, and it is shorter only when the holders left
\* have a total weight <= 0; each pick is the first index of the remaining
\* list whose cumulative weight strictly exceeds r = random() * totalWeight.
C14_WithoutReplacement ==
    lottery.stage \in {"selected", "reselected"} =>
        LET w == lottery.winners
            e == lottery.eligible
            full == Min(lottery.count, Len(e))
            left == {k \in 1 .. Len(e) : e[k].wallet \notin WalletsOf(w)}
            Sum(list, n) == totalWeight(SubSeq(list, 1, n))
        IN  /\ Cardinality(WalletsOf(w)) = Len(w)
            /\ \A k \in 1 .. Len(w) : \E j \in 1 .. Len(e) : w[k] = e[j]
            /\ Len(w) <= full
            /\ (\A k \in 1 .. Len(e) : e[k].weight > 0) => Len(w) = full
            /\ Len(w) < full => \A k \in left : e[k].weight <= 0
            /\ Len(lottery.picks) = Len(w)
            /\ \A k \in 1 .. Len(w) :
                  LET p == lottery.picks[k]
                      total == totalWeight(p.remaining)
                  IN  /\ w[k] = p.remaining[p.index]
                      /\ isBelow(p.value, total, Sum(p.remaining, p.index))
                      /\ \A j \in 1 .. (p.index - 1) :
                            ~isBelow(p.value, total, Sum(p.remaining, j))

\* A draw of two winners from three holders of positive weights, the second
\* pick made past the first index; and a draw cut short by zero weights.
C14_Witness ==
    /\ lottery.stage = "selected"
    /\ Len(lottery.eligible) = 3
    /\ Len(lottery.winners) = 2
    /\ lottery.count = 2
    /\ \A k \in 1 .. 3 : lottery.eligible[k].weight > 0
    /\ lottery.picks[2].index > 1

C16_Reproducible ==
    lottery.recorded =>
        /\ lottery.round.lotterySeed
              = createSeed(lottery.round.ts, TokenMint, lottery.round.lotteryBlockhash)
        /\ selectWinners(lottery.log, lottery.count, [seed |-> lottery.round.lotterySeed])
              = lottery.winners

\* A reward round has just computed its eligible holders and drawn.
DrawStep == tasks'.draw.n = tasks.draw.n + 1

\* C17: the eligible list of a reward round holds exactly the holders that
\* are not blacklisted, have first_seen_ts set and <= now - minAge,
\* continuity_start_ts set and <= now - minContinuity, cumulative_buy_sol >=
\* minBuy and last_balance_raw > 0; the whole list enters the draw and every
\* winner is taken from it.
C17_Eligibility ==
    [][DrawStep =>
        LET satisfies(w) ==
                /\ holders[w].present
                /\ ~holders[w].is_blacklisted
                /\ holders[w].first_seen_ts # Null
                /\ holders[w].first_seen_ts
                      <= now - HolderConfig.walletMinAgeDays * SecondsPerDay
                /\ holders[w].continuity_start_ts # Null
                /\ holders[w].continuity_start_ts <= now - HolderConfig.minContinuitySeconds
                /\ holders[w].cumulative_buy_sol >= HolderConfig.minCumulativeBuySol
                /\ holders[w].last_balance_raw # Null
                /\ holders[w].last_balance_raw > 0
            drawn == {tasks'.draw.eligible[k] : k \in 1 .. Len(tasks'.draw.eligible)}
            winners == {tasks'.draw.winners[k] : k \in 1 .. Len(tasks'.draw.winners)}
        IN  /\ drawn = {w \in HolderWallets : satisfies(w)}
            /\ Cardinality(drawn) = Len(tasks'.draw.eligible)
            /\ winners \subseteq drawn
            /\ Len(tasks'.draw.winners)
                  = Min(HolderConfig.winnersPerRound, Len(tasks'.draw.eligible))]_vars

\* A round drew its winner from one eligible holder and left out a holder
\* whose continuity was too short.
C17_Witness ==
    /\ tasks.draw.n = 1
    /\ tasks.draw.eligible = <<"w2">>
    /\ tasks.draw.winners = <<"w2">>
    /\ holders["w1"].present
    /\ ~holders["w1"].is_blacklisted
    /\ holders["w1"].first_seen_ts = -86400
    /\ holders["w1"].cumulative_buy_sol >= 1
    /\ holders["w1"].last_balance_raw = 500
    /\ holders["w1"].continuity_start_ts = -60

\* C18: when the refresh of a holder at check time T observes a balance
\* strictly below the stored last_balance_raw, the update leaves
\* last_balance_raw at the new balance, continuity_start_ts =
\* last_balance_check_ts = last_decrease_ts = T, streak_rounds = 0 and
\* twb_score = 0; otherwise streak_rounds, twb_score and last_decrease_ts are
\* unchanged and continuity_start_ts is unchanged, or T if it was null.
C18_ContinuityReset ==
    [][\A w \in HolderWallets :
          w \in tasks.refresh.pending /\ w \notin tasks'.refresh.pending =>
              LET T == tasks.refresh.ts
                  old == holders[w]
                  new == holders'[w]
                  stored == IF old.last_balance_raw = Null THEN 0 ELSE old.last_balance_raw
              IN  /\ new.last_balance_check_ts = T
                  /\ new.last_balance_raw # Null
                  /\ new.last_balance_raw < stored =>
                        /\ new.continuity_start_ts = T
                        /\ new.last_decrease_ts = T
                        /\ new.streak_rounds = 0
                        /\ new.twb_score = 0
                  /\ new.last_balance_raw >= stored =>
                        /\ new.streak_rounds = old.streak_rounds
                        /\ new.twb_score = old.twb_score
                        /\ new.last_decrease_ts = old.last_decrease_ts
                        /\ new.continuity_start_ts
                              = IF old.continuity_start_ts = Null THEN T
                                ELSE old.continuity_start_ts]_vars

\* One holder was refreshed with a lower, non-zero balance and reset; the
\* other was refreshed with its balance unchanged and kept its streak.
C18_Witness ==
    /\ tasks.refresh.stage = "done"
    /\ holders["w1"].last_balance_raw = 400
    /\ holders["w1"].last_decrease_ts = tasks.refresh.ts
    /\ holders["w1"].continuity_start_ts = tasks.refresh.ts
    /\ holders["w1"].streak_rounds = 0
    /\ holders["w2"].last_balance_raw = 500
    /\ holders["w2"].streak_rounds = 1
    /\ holders["w2"].last_decrease_ts = Null
    /\ holders["w2"].continuity_start_ts = -120

\* C19 as stated: a first_seen_ts that is set never changes.
C19_FirstSeenImmutable ==
    [][\A w \in HolderWallets :
          holders[w].first_seen_ts # Null =>
              holders'[w].first_seen_ts = holders[w].first_seen_ts]_vars

\* C20: a detected buy of medium or low confidence adds to
\* cumulative_buy_sol_low_confidence and leaves cumulative_buy_sol alone, a
\* buy of high confidence does the opposite, and a holder none of whose
\* detected buys had high confidence is not among the eligible holders of a
\* reward round (minBuy is positive).
C20_LowConfidenceNeverCounts ==
    [][\A w \in HolderWallets :
          LET high == tasks'.detected[w].high - tasks.detected[w].high
              low == tasks'.detected[w].low - tasks.detected[w].low
              eligible == {tasks'.draw.eligible[k] : k \in 1 .. Len(tasks'.draw.eligible)}
          IN  /\ holders'[w].cumulative_buy_sol = holders[w].cumulative_buy_sol + high
              /\ holders'[w].cumulative_buy_sol_low_confidence
                    = holders[w].cumulative_buy_sol_low_confidence + low
              /\ DrawStep /\ tasks.detected[w].high = 0 => w \notin eligible]_vars

\* A holder with two low-confidence buys and nothing else against it was
\* left out of a round's eligible holders.
C20_Witness ==
    /\ tasks.draw.n = 1
    /\ tasks.detected["w1"] = [high |-> 0, low |-> 2]
    /\ holders["w1"].cumulative_buy_sol_low_confidence = 2
    /\ holders["w1"].cumulative_buy_sol = 0
    /\ ~holders["w1"].is_blacklisted
    /\ holders["w1"].first_seen_ts = -86400
    /\ holders["w1"].last_balance_raw = 500
    /\ holders["w1"].continuity_start_ts = -120
    /\ tasks.draw.eligible = <<>>

\* C21: an incremental scan that starts when the ledger holds nothing newer
\* than the stored cursor ends at its first response with the cursor as it
\* was, no buy detected, no holder discovered and no holder's row changed;
\* a second such scan therefore leaves the registry as the first did.
C21_IdempotentCursor ==
    [][\A p \in Scanners \ {"bootstrap"} :
          /\ scan.proc[p].pc = "fetch"
          /\ scan.proc[p].paginationToken = Null
          /\ scan.proc[p].totalFetched = 0
          /\ scan.proc[p].lastProcessedSig = scan.cursor
          /\ scan.ledger = (IF scan.cursor = Null THEN 0 ELSE scan.cursor)
          /\ scan'.proc[p] # scan.proc[p]
          => /\ scan'.proc[p].pc = "idle"
             /\ scan'.cursor = scan.cursor
             /\ scan'.proc[p].buysDetected = 0
             /\ scan'.proc[p].transactionsProcessed = 0
             /\ scan'.proc[p].newHolders = {}
             /\ scan'.credited = scan.credited
             /\ holders' = holders]_vars

\* A first scan processed two transactions and saved its cursor; the next
\* scan of the same ledger stopped at the cursor with nothing processed.
C21_Witness ==
    /\ scan.started = 2
    /\ scan.ledger = 2
    /\ scan.cursor = 2
    /\ scan.credited[1] = 1
    /\ scan.proc["periodic"].pc = "idle"
    /\ scan.proc["periodic"].reachedLastProcessed
    /\ scan.proc["periodic"].transactionsProcessed = 0
    /\ scan.proc["reward"] = NoScanner
    /\ scan.proc["bootstrap"] = NoScanner
    /\ holders["w1"].cumulative_buy_sol = 1

\* C30 as stated: the buy of a ledger transaction is added to its holder's
\* totals at most once.
C30_BuyCountedOnce == \A sig \in 1 .. MaxTx : scan.credited[sig] <= 1

\* C22 as stated: in every interval of 60 seconds at most 30 GET requests
\* of the client pass the rate limiter.
C22_RateLimit ==
    \A i, j \in DOMAIN RequestInstants :
        i <= j /\ RequestInstants[j] - RequestInstants[i] < RATE_LIMIT_WINDOW_MS =>
            LET RECURSIVE sum(_)
                sum(k) == IF k > j THEN 0 ELSE limiter.passed[k] + sum(k + 1)
            IN  sum(i) <= RATE_LIMIT_MAX_REQUESTS

\* C23: the snapshot of a /status response has lastBuyTs = the ts of the
\* most recent buy round and nextBuyTs = lastBuyTs + buyIntervalSeconds, both
\* null without a buy round, and likewise for reward; botOnline iff a
\* heartbeat exists and now - heartbeat_ts < 60; heartbeatAgeSeconds = now -
\* heartbeat_ts, or -1 without a heartbeat; buyInProgress / rewardInProgress
\* iff the lock row exists; safeModeReason null whenever safeMode is false.
C23_StatusProjection ==
    [][limiter'.status = 200 /\ limiter'.passed # limiter.passed =>
        LET s == limiter'.body
            tsOf(type) == {x.ts : x \in {y \in rounds : y.type = type}}
            last(type) == IF tsOf(type) = {} THEN Null
                          ELSE CHOOSE t \in tsOf(type) : \A u \in tsOf(type) : u <= t
            heartbeat == botState.heartbeat_ts # Null
        IN  /\ s.now = now
            /\ s.lastBuyTs = last("buy")
            /\ s.lastRewardTs = last("reward")
            /\ s.nextBuyTs = IF last("buy") = Null THEN Null
                             ELSE last("buy") + BuyIntervalSeconds
            /\ s.nextRewardTs = IF last("reward") = Null THEN Null
                                ELSE last("reward") + RewardIntervalSeconds
            /\ s.botOnline <=> heartbeat /\ now - botState.heartbeat_ts < 60
            /\ s.heartbeatAgeSeconds = IF heartbeat THEN now - botState.heartbeat_ts ELSE -1
            /\ s.buyInProgress <=> locks["buy_job"].held
            /\ s.rewardInProgress <=> locks["reward_job"].held
            /\ s.safeMode <=> botState.safe_mode
            /\ ~s.safeMode => s.safeModeReason = Null]_vars

\* A response over a store with two buy rounds, a reward round, a held buy
\* lock and a heartbeat exactly 60 seconds old.
C23_Witness ==
    /\ limiter.status = 200
    /\ limiter.body.now = 120
    /\ limiter.body.lastBuyTs = 60
    /\ limiter.body.nextBuyTs = 60 + BuyIntervalSeconds
    /\ limiter.body.lastRewardTs = 60
    /\ limiter.body.heartbeatAgeSeconds = 60
    /\ ~limiter.body.botOnline
    /\ limiter.body.buyInProgress
    /\ ~limiter.body.rewardInProgress
    /\ ~limiter.body.safeMode
    /\ Cardinality(rounds) = 3

\* C24: a buy (reward) trigger of the scheduler goes on to the job only if
\* no round of that type exists or now - ts of the most recent one >= the
\* interval, and the guard refuses exactly when now is earlier than the
\* nextBuyTs (nextRewardTs) a status response would carry at that moment.
C24_TimingGuard ==
    [][\A job \in Jobs :
          LET s == buildStatus(now', rounds, locks, botState)
              next == IF job = "buy" THEN s.nextBuyTs ELSE s.nextRewardTs
              early == next # Null /\ now' < next
              mine == {x \in rounds : x.type = job}
          IN  /\ shouldRunJob(rounds, job, now') <=> ~early
              /\ \A r \in Runs :
                    /\ ProcOf(r) = "sched"
                    /\ run[r].pc = "idle"
                    /\ run'[r].pc = "precheck"
                    /\ run'[r].job = job
                    => /\ ~early
                       /\ \/ mine = {}
                          \/ \E x \in mine : /\ \A y \in mine : y.ts <= x.ts
                                             /\ now' - x.ts >= IntervalOf(job)]_vars

\* The buy trigger fired a minute after a buy round began and was refused,
\* while the reward trigger of the same minute went on.
C24_Witness ==
    /\ alive["sched"]
    /\ now = 120
    /\ \E x \in rounds : x.type = "buy" /\ x.ts = 60
    /\ \A x \in rounds : x.type = "reward" => x.ts = 0
    /\ \E r \in Runs : ProcOf(r) = "sched" /\ run[r].pc = "precheck" /\ run[r].job = "reward"
    /\ \A r \in Runs : ProcOf(r) = "sched" => run[r].job # "buy"

C27_RecordedSignaturesFinal ==
    [][/\ \A id \in DOMAIN net'.txs_json : \A k \in DOMAIN net'.txs_json[id] :
             \/ net'.txs_json[id][k] \in net'.confirmed
             \/ net'.txs_json[id][k] = DryRunSignature
             \/ \E j \in DOMAIN DryRunTransactions :
                   net'.txs_json[id][k] = DryRunTransactions[j]
       /\ \A x \in rounds' \ rounds :
             /\ net'.txs_json[x.round_id] = net'.result.transactions
             /\ ~x.success => net'.txs_json[x.round_id] = << >>
       /\ net.reward.pc = "transfer" /\ net'.reward.pc = "idle" =>
             LET batches == Append(net.reward.attempted, Signature(net.serial + 1))
             IN  \E x \in rounds' \ rounds :
                    /\ x.type = "reward"
                    /\ net'.txs_json[x.round_id]
                          = SelectSeq(batches, LAMBDA sig : sig \in net'.confirmed)]_vars

\* A reward round of two batches, the first sent and not confirmed, the
\* second confirmed, after a buy round whose swap failed to confirm.
C27_Witness ==
    /\ ~net.dryRun
    /\ net.txs_json = <<(<< >>), <<Signature(3)>>>>
    /\ net.swaps = {Signature(1)}
    /\ net.transfers = {Signature(2), Signature(3)}
    /\ net.confirmed = {Signature(3)}
    /\ net.result.job = "reward"

C28_OrphanedLockRecovers ==
    \A lt \in LockTypes :
        (alive["sched"] /\ ~isSafeMode(botState) /\ lt \in orphaned)
            ~> (BodiesOf(lt) # {} \/ ~alive["sched"] \/ isSafeMode(botState))

\* The run that inserted the row of lock type lt: the row carries the
\* instant of the acquisition and the process of the run.
OwnsLock(r, lt) ==
    /\ InBody(r)
    /\ LockTypeOf(run[r].job) = lt
    /\ locks[lt].pid = ProcOf(r)
    /\ locks[lt].acquired_ts = run[r].start

\* C29: a lock row is deleted only by the run that inserted it, in the step
\* in which that run leaves its body, or by the stale cleanup of a starting
\* process when the row is older than 2 * max(buyInterval, rewardInterval);
\* in particular a run whose own row was cleaned and re-acquired by a newer
\* run leaves the newer run's row in place when it finishes.
C29_DeletedByOwnerOnly ==
    [][\A lt \in LockTypes :
          (isLockHeld(locks, lt) /\ ~isLockHeld(locks', lt)) =>
              \/ \E r \in Runs : OwnsLock(r, lt) /\ run'[r].pc = "idle"
              \/ /\ \E p \in Procs : ~alive[p] /\ alive'[p]
                 /\ locks[lt].acquired_ts < now - maxLockAge]_vars

\* C31: the periodic scan trigger starts no scan while another scan is
\* running in the scheduler process, the incremental scan at the start of a
\* reward job included.
C31_NoOverlappingScans ==
    [][(~shutdown.scanJobRunning /\ shutdown'.scanJobRunning)
          => scansInProgress(shutdown) = 0]_vars

\* C32: a wallet whose age computation failed with a transport error has its
\* age computed again when a later scan sights it: once the adapter answers
\* and the wallet keeps appearing in scans, first_seen_ts is eventually set.
C32_AgeRetried ==
    \A p \in Procs, w \in HolderWallets :
        (tasks.scan[p][w] = "failed") ~> (holders[w].first_seen_ts # Null)

\* C33: a refresh of a holder whose balance request fails with a transport
\* error leaves last_balance_raw, continuity_start_ts, streak_rounds,
\* twb_score and last_decrease_ts of that holder as they were.
C33_FailedFetchKeepsState ==
    [][\A w \in HolderWallets :
          RefreshFetch(w, [error |-> "fetch failed", amount |-> 0]) =>
              /\ holders'[w].last_balance_raw = holders[w].last_balance_raw
              /\ holders'[w].continuity_start_ts = holders[w].continuity_start_ts
              /\ holders'[w].streak_rounds = holders[w].streak_rounds
              /\ holders'[w].twb_score = holders[w].twb_score
              /\ holders'[w].last_decrease_ts = holders[w].last_decrease_ts]_vars

\* C34: an error raised by one transaction of a scan is swallowed for that
\* transaction only: the scan goes on with the transactions that remain, and
\* when it ends its cursor is the newest signature it has seen.
C34_TransactionErrorKeepsProgress ==
    [][\A p \in Scanners :
          (~scan.proc[p].threw /\ scan'.proc[p].threw) =>
              \/ scan'.proc[p].pc = "fetch"
              \/ scan'.cursor = scan'.proc[p].lastSignature]_vars

\* The counter after an engine run whose body settled with out, as the
\* statement gives it.
CounterAfter(out, count) ==
    IF out = "return" THEN 0
    ELSE IF out \in {"503", "429", "timeout", "ECONNREFUSED", "fetch failed"} THEN count + 1
    ELSE count

\* The steps of engine runs follow the statement, safe mode is entered
\* exactly by an increment that reaches the threshold, and outside safe mode
\* the counter is below the threshold.
CounterOfRuns ==
    /\ [][\A r \in Runs : \A out \in {"return"} \cup Errors :
             FnFinish(r, out) =>
                 getRpcErrorCount(botState')
                     = CounterAfter(out, getRpcErrorCount(botState))]_vars
    /\ [][(~isSafeMode(botState) /\ isSafeMode(botState'))
             <=> /\ ~isSafeMode(botState)
                 /\ getRpcErrorCount(botState') = getRpcErrorCount(botState) + 1
                 /\ getRpcErrorCount(botState') >= MaxRpcErrorsBeforePause]_vars
    /\ [](~isSafeMode(botState) => getRpcErrorCount(botState) < MaxRpcErrorsBeforePause)

\* C35 as stated: consecutive_rpc_errors changes only in the step in which
\* an engine run settles (reset to 0 on a normal return, plus one on an RPC
\* error, unchanged on a timeout, an abort or another error); safe mode is
\* entered exactly when an increment reaches maxRpcErrorsBeforePause; outside
\* safe mode the counter is below the threshold.
C35_CounterTransitions ==
    /\ CounterOfRuns
    /\ [][getRpcErrorCount(botState') # getRpcErrorCount(botState)
             => \E r \in Runs : InBody(r) /\ run'[r].pc = "idle"]_vars

\* C35: the same, with one more transition of the counter: the operator's
\* --exit-safe-mode, run while the bot is in safe mode, resets it to 0.
C35_CounterTransitionsOrExit ==
    /\ CounterOfRuns
    /\ [][getRpcErrorCount(botState') # getRpcErrorCount(botState)
             => \/ \E r \in Runs : InBody(r) /\ run'[r].pc = "idle"
                \/ /\ isSafeMode(botState) /\ ~isSafeMode(botState')
                   /\ getRpcErrorCount(botState') = 0]_vars

\* The third RPC error in a row has put the bot in safe mode.
C35_Witness ==
    /\ isSafeMode(botState)
    /\ getRpcErrorCount(botState) = MaxRpcErrorsBeforePause
    /\ botState.safe_mode_reason = MaxRpcErrorsBeforePause
    /\ \A r \in Runs : ~Active(r)

EligibleOf(T) == {T.draw.eligible[k] : k \in 1 .. Len(T.draw.eligible)}

\* C36: in the step of a reward round that follows its transfers, every
\* holder of the round's eligible set has streak_rounds increased by one and
\* twb_score by its token balance times the reward interval, no other holder
\* has either changed, and the round row is inserted; no other step of the
\* round or of a scan changes streak_rounds or twb_score.
C36_PostRoundUpdate ==
    [][\A w \in HolderWallets :
          IF tasks.refresh.stage = "transfers" /\ tasks'.refresh.stage = "idle"
          THEN /\ w \in EligibleOf(tasks) =>
                     /\ holders'[w].streak_rounds = holders[w].streak_rounds + 1
                     /\ holders'[w].twb_score
                           = holders[w].twb_score
                               + holders[w].last_balance_raw * RewardIntervalSeconds
               /\ w \notin EligibleOf(tasks) =>
                     /\ holders'[w].streak_rounds = holders[w].streak_rounds
                     /\ holders'[w].twb_score = holders[w].twb_score
               /\ Cardinality(RoundsOf(rounds', "reward"))
                     = Cardinality(RoundsOf(rounds, "reward")) + 1
          ELSE /\ holders'[w].streak_rounds = holders[w].streak_rounds
               /\ holders'[w].twb_score = holders[w].twb_score
               /\ rounds' = rounds]_vars

\* A round whose transfers failed has updated its one eligible holder, who
\* had a round behind it, and left the other holder's streak alone.
C36_Witness ==
    /\ tasks.refresh.stage = "idle"
    /\ tasks.draw.n = 1
    /\ tasks.draw.eligible = <<"w1">>
    /\ holders["w1"].streak_rounds = 2
    /\ holders["w2"].present
    /\ holders["w2"].streak_rounds = 1
    /\ \E x \in rounds : x.type = "reward" /\ ~x.success

\* C37: for every holder, a last_decrease_ts that is set comes with a
\* continuity_start_ts that is set and not before it, and no step moves a
\* holder's continuity_start_ts back.
C37_ContinuityOrdering ==
    /\ [](\A w \in HolderWallets :
             holders[w].last_decrease_ts # Null =>
                 /\ holders[w].continuity_start_ts # Null
                 /\ holders[w].continuity_start_ts >= holders[w].last_decrease_ts)
    /\ [][\A w \in HolderWallets :
             holders[w].continuity_start_ts # Null =>
                 holders'[w].continuity_start_ts >= holders[w].continuity_start_ts]_vars

\* C38: with the periodic scan interleaved with the balance refresh of a
\* reward job, the refresh of a holder leaves first_seen_ts, both buy sums
\* and is_blacklisted of every holder as they were; every other step leaves
\* last_balance_raw, continuity_start_ts, streak_rounds, twb_score and
\* last_decrease_ts of an existing holder as they were; a refresh that finds
\* a decrease stamps the reset; and the buy sums are the buys detected.
C38_UpsertsPreserveOmitted ==
    /\ [][\A w \in HolderWallets :
            LET refreshed == /\ w \in tasks.refresh.pending
                             /\ w \notin tasks'.refresh.pending
            IN  /\ (\E v \in HolderWallets : v \in tasks.refresh.pending
                                             /\ v \notin tasks'.refresh.pending) =>
                      /\ holders'[w].first_seen_ts = holders[w].first_seen_ts
                      /\ holders'[w].cumulative_buy_sol = holders[w].cumulative_buy_sol
                      /\ holders'[w].cumulative_buy_sol_low_confidence =
                            holders[w].cumulative_buy_sol_low_confidence
                      /\ holders'[w].is_blacklisted = holders[w].is_blacklisted
                /\ (~refreshed /\ holders[w].present) =>
                      /\ holders'[w].last_balance_raw = holders[w].last_balance_raw
                      /\ holders'[w].continuity_start_ts = holders[w].continuity_start_ts
                      /\ holders'[w].streak_rounds = holders[w].streak_rounds
                      /\ holders'[w].twb_score = holders[w].twb_score
                      /\ holders'[w].last_decrease_ts = holders[w].last_decrease_ts
                /\ (refreshed /\ tasks.refresh.snapshot[w] # Null
                              /\ holders'[w].last_balance_raw < tasks.refresh.snapshot[w]) =>
                      /\ holders'[w].continuity_start_ts = tasks.refresh.ts
                      /\ holders'[w].last_decrease_ts = tasks.refresh.ts]_vars
    /\ [](\A w \in HolderWallets :
            /\ holders[w].cumulative_buy_sol = tasks.detected[w].high
            /\ holders[w].cumulative_buy_sol_low_confidence = tasks.detected[w].low)

\* A refresh is under way with w1 still to come, w1 holds a buy and an age,
\* and w2 was discovered and credited with a buy after the refresh began.
C38_Witness ==
    /\ tasks.refresh.stage = "running"
    /\ tasks.refresh.pending = {"w1"}
    /\ holders["w1"].cumulative_buy_sol = 1
    /\ holders["w1"].first_seen_ts # Null
    /\ holders["w1"].streak_rounds = 1
    /\ holders["w1"].is_blacklisted
    /\ holders["w2"].present
    /\ holders["w2"].last_balance_check_ts = Null
    /\ holders["w2"].cumulative_buy_sol = 1
    /\ tasks.scan["sched"]["w2"] = "new"

\* C39: the totalDistributed recorded for a reward round that sends its
\* transfers is perWinner times the number of winners whose batch was
\* confirmed.
C39_DistributedMatchesConfirmed ==
    ~isDryRun(net) =>
        net.distributed.totalDistributed = amountRaw * net.distributed.paid

\* C40: with REWARD_INTERVAL_SECONDS equal to the period of its trigger (one
\* minute), when a trigger fires in the running scheduler with no job in
\* flight and the last reward round was stamped within the minute before
\* it, by the job of the previous trigger, the guard lets the reward job run
\* again.
C40_SteadyCadence ==
    [][(/\ now' > now
        /\ secondsToCron(RewardIntervalSeconds, now')
        /\ alive["sched"]
        /\ \A r \in Runs : ~Active(r)
        /\ Cardinality(rounds) + 1 < MaxRounds
        /\ hasRound(rounds, "reward")
        /\ getLastRoundTs(rounds, "reward") >= now' - RewardIntervalSeconds
        /\ getLastRoundTs(rounds, "reward") < now') =>
            \E r \in Runs : run'[r].pc = "precheck" /\ run'[r].job = "reward"]_vars

=============================================================================
